---- MODULE Spec2Model ----
(***************************************************************************)
(* Model of nomad/resource_job_v2.go: the nomad_job_v2 resource handler.   *)
(*                                                                         *)
(* The handler has three operations (register, read, deregister) that act  *)
(* on a schema.ResourceData handle d (its identity d.Id() and its          *)
(* attribute tree) and on the remote Nomad API.  The encoder (getJob and   *)
(* its helpers) and the decoder (readGroups, readUpdate, ...) are pure     *)
(* functions and are modelled as operators.                                *)
(*                                                                         *)
(* Representation                                                          *)
(*   - a Go pointer is a sequence of length 0 (nil) or 1 (the pointee);    *)
(*   - a time.Duration is a whole number of seconds;                       *)
(*   - a block list of the configuration tree is a sequence of records;    *)
(*   - a function that can return an error or panic returns a record       *)
(*     [st, val, msg] with st in {"ok", "err", "panic"}.                   *)
(***************************************************************************)
EXTENDS Integers, Sequences, FiniteSets, TLC

VARIABLES
    id,      \* d.Id(): the identity of the resource, "" when absent
    attrs,   \* the attribute tree held by d (configuration / stored state)
    last     \* the most recent handler invocation: what it was given, the
             \* API calls it issued with their outcomes, and what it returned

vars == <<id, attrs, last>>

-----------------------------------------------------------------------------
(* Bounds of the model *)

MaxGroups == 1
MaxErrLen == 3
MaxAttempts == 3

-----------------------------------------------------------------------------
(* Pointers and results *)

Nil == <<>>
Ptr(x) == <<x>>
IsNil(p) == p = <<>>
Deref(p) == p[1]

Ok(v) == [st |-> "ok", val |-> v, msg |-> ""]
Err(m) == [st |-> "err", val |-> Nil, msg |-> m]
Panic == [st |-> "panic", val |-> Nil, msg |-> ""]

IsOk(r) == r.st = "ok"

\* The first result of a sequence of results that is not ok, or the
\* sequence of the values when all are ok (a Go function that returns at
\* the first error).
AllOk(rs) ==
    IF \A i \in 1..Len(rs) : IsOk(rs[i])
    THEN Ok([i \in 1..Len(rs) |-> rs[i].val])
    ELSE rs[CHOOSE i \in 1..Len(rs) :
                /\ ~IsOk(rs[i])
                /\ \A j \in 1..(i - 1) : IsOk(rs[j])]

\* strToPtr: the empty string is "not set"
strToPtr(s) == IF s = "" THEN Nil ELSE Ptr(s)

boolToPtr(b) == Ptr(b)

intToPtr(i) == Ptr(i)

-----------------------------------------------------------------------------
(* Durations: time.ParseDuration and time.Duration.String on whole seconds *)

\* Texts time.ParseDuration accepts, with their value in seconds.
DurationTable ==
    { <<"0s", 0>>, <<"5s", 5>>, <<"10s", 10>>, <<"15s", 15>>, <<"30s", 30>>,
      <<"30m", 1800>>, <<"30m0s", 1800>>, <<"5m0s", 300>>,
      <<"1h", 3600>>, <<"1h0m0s", 3600>>,
      <<"24h", 86400>>, <<"24h0m0s", 86400>> }

\* Texts time.ParseDuration rejects ("" is rejected too: "invalid duration").
BadDurationTexts == {"bad", "15"}

ParseDuration(s) ==
    IF \E e \in DurationTable : e[1] = s
    THEN [secs |-> (CHOOSE e \in DurationTable : e[1] = s)[2], err |-> Nil]
    ELSE [secs |-> 0, err |-> Ptr("time: invalid duration")]

\* time.Duration.String for a whole number of seconds
DurationString(n) ==
    LET h == n \div 3600
        m == (n % 3600) \div 60
        s == n % 60
    IN  IF h > 0 THEN ToString(h) \o "h" \o ToString(m) \o "m" \o ToString(s) \o "s"
        ELSE IF m > 0 THEN ToString(m) \o "m" \o ToString(s) \o "s"
        ELSE ToString(s) \o "s"

\* p.String() on a *time.Duration: a nil pointer is dereferenced
PtrDurationString(p) == IF IsNil(p) THEN Panic ELSE Ok(DurationString(Deref(p)))

\* what a string attribute holds once a *time.Duration was stored in it
\* without being rendered: a value that is not a string
RawDuration(p) ==
    "(*time.Duration)" \o (IF IsNil(p) THEN "nil" ELSE DurationString(Deref(p)))

RawDurations == {RawDuration(Nil)} \cup {RawDuration(Ptr(e[2])) : e \in DurationTable}

getDuration_Swallow(s) ==
    LET rest(p) == IF p.secs = 0 THEN Ok(Nil) ELSE Ok(Ptr(p.secs))
    IN  IF s \in RawDurations THEN Panic
        ELSE IF s = "" THEN Ok(Nil) ELSE rest(ParseDuration(s))

\* s := d.(string) fails on a value that is not a string
getDuration(s) ==
    LET rest(p) ==
            IF p.secs = 0
            THEN (IF IsNil(p.err) THEN Ok(Nil) ELSE Err(Deref(p.err)))
            ELSE Ok(Ptr(p.secs))
    IN  IF s \in RawDurations THEN Panic
        ELSE IF s = "" THEN Ok(Nil) ELSE rest(ParseDuration(s))

-----------------------------------------------------------------------------
(* JSON blobs: json.Unmarshal into a map[string]interface{} and json.Marshal *)
(*                                                                         *)
(* A decoded value is a number (a float64, written with its digits) or an  *)
(* object (a map from keys to values); a map[string]interface{} is a       *)
(* pointer to such a map, nil for the text "null".                         *)

JsonNumber(digits) == [kind |-> "number", digits |-> digits, members |-> <<>>]
JsonObject(members) == [kind |-> "object", digits |-> "", members |-> members]

EmptyMap == [k \in {} |-> 0]
MapA1 == [k \in {"a"} |-> JsonNumber("1")]
\* 2^53 + 1 is not a float64: the number is rounded to 2^53
MapBig == [k \in {"a"} |-> JsonNumber("9007199254740992")]
MapNested ==
    [k \in {"a", "b"} |->
        IF k = "a" THEN JsonObject([j \in {"b"} |-> JsonNumber("2")])
        ELSE JsonNumber("1")]

BigNumberText == "{\"a\":9007199254740993}"

\* Texts json.Unmarshal accepts for a map, with the resulting map (a nil
\* map for "null").
JsonTable ==
    { <<"null", Nil>>, <<"{}", Ptr(EmptyMap)>>,
      <<"{\"a\":1}", Ptr(MapA1)>>, <<"{ \"a\": 1 }", Ptr(MapA1)>>,
      <<"{\"b\":1,\"a\":{\"b\":2}}", Ptr(MapNested)>>,
      <<"{\"a\":{\"b\":2},\"b\":1}", Ptr(MapNested)>>,
      <<BigNumberText, Ptr(MapBig)>>,
      <<"{\"a\":9007199254740992}", Ptr(MapBig)>> }

\* Texts json.Unmarshal rejects for a map
BadJsonTexts == {"", "{", "[1]"}

jsonUnmarshal(text) ==
    IF \E e \in JsonTable : e[1] = text
    THEN Ok((CHOOSE e \in JsonTable : e[1] = text)[2])
    ELSE Err("invalid JSON")

\* json.Unmarshal into an interface{}: every JSON value is accepted
jsonUnmarshalAny(text) ==
    IF text = "[1]" \/ \E e \in JsonTable : e[1] = text
    THEN Ok(text) ELSE Err("invalid JSON")

\* the keys of a map in the order json.Marshal writes them
SortedKeys(m) ==
    (IF "a" \in DOMAIN m THEN <<"a">> ELSE <<>>)
    \o (IF "b" \in DOMAIN m THEN <<"b">> ELSE <<>>)

MemberText(key, text) == "\"" \o key \o "\":" \o text

ObjectText(members) ==
    IF Len(members) = 0 THEN "{}"
    ELSE IF Len(members) = 1 THEN "{" \o members[1] \o "}"
    ELSE "{" \o members[1] \o "," \o members[2] \o "}"

\* an object of numbers
marshalInner(m) ==
    ObjectText([i \in 1..Len(SortedKeys(m)) |->
                  MemberText(SortedKeys(m)[i], m[SortedKeys(m)[i]].digits)])

marshalValue(v) == IF v.kind = "number" THEN v.digits ELSE marshalInner(v.members)

\* json.Marshal of a map decoded from JSON never fails; keys are sorted
jsonMarshal(m) ==
    IF IsNil(m) THEN "null"
    ELSE ObjectText([i \in 1..Len(SortedKeys(Deref(m))) |->
                       MemberText(SortedKeys(Deref(m))[i],
                                  marshalValue(Deref(m)[SortedKeys(Deref(m))[i]]))])

-----------------------------------------------------------------------------
(* Encoder: configuration tree -> API object graph                          *)
(*                                                                         *)
(* The modelled part of the schema: job (name, type, datacenters,          *)
(* constraint, spread, parameterized, update, group), group (name,         *)
(* ephemeral_disk, restart, reschedule, migrate, shutdown_delay, spread,   *)
(* network / dns, task, service), task (name, config, kill_timeout,        *)
(* shutdown_delay, template, vault, dispatch_payload, lifecycle, logs,     *)
(* resources), service (name, tags, canary_tags, check / check_restart,    *)
(* connect / sidecar_task, sidecar_service / proxy).                       *)

getMigrate(d) ==
    IF Len(d) = 0 THEN Ok(Nil)
    ELSE LET m == d[1]
             rest(ds) ==
                 Ok(Ptr([MaxParallel |-> intToPtr(m.max_parallel),
                         HealthCheck |-> strToPtr(m.health_check),
                         MinHealthyTime |-> ds[1],
                         HealthyDeadline |-> ds[2]]))
             \* if err != nil { return nil, err }
             checked(ret) == IF IsOk(ret) THEN rest(ret.val) ELSE ret
         IN  checked(AllOk(<<getDuration(m.min_healthy_time),
                             getDuration(m.healthy_deadline)>>))

getReschedule(d) ==
    IF Len(d) = 0 THEN Ok(Nil)
    ELSE LET r == d[1]
             rest(ds) ==
                 Ok(Ptr([Attempts |-> intToPtr(r.attempts),
                         DelayFunction |-> strToPtr(r.delay_function),
                         Unlimited |-> boolToPtr(r.unlimited),
                         Interval |-> ds[1],
                         Delay |-> ds[2],
                         MaxDelay |-> ds[3]]))
             \* if err != nil { return nil, err }
             checked(ret) == IF IsOk(ret) THEN rest(ret.val) ELSE ret
         IN  checked(AllOk(<<getDuration(r.interval), getDuration(r.delay),
                             getDuration(r.max_delay)>>))

getUpdate(d) ==
    IF Len(d) = 0 THEN Ok(Nil)
    ELSE LET u == d[1]
             rest(ds) ==
                 Ok(Ptr([MaxParallel |-> intToPtr(u.max_parallel),
                         HealthCheck |-> strToPtr(u.health_check),
                         Canary |-> intToPtr(u.canary),
                         AutoRevert |-> boolToPtr(u.auto_revert),
                         AutoPromote |-> boolToPtr(u.auto_promote),
                         Stagger |-> ds[1],
                         MinHealthyTime |-> ds[2],
                         HealthyDeadline |-> ds[3],
                         ProgressDeadline |-> ds[4]]))
             \* if err != nil { return nil, err }
             checked(ret) == IF IsOk(ret) THEN rest(ret.val) ELSE ret
         IN  checked(AllOk(<<getDuration(u.stagger), getDuration(u.min_healthy_time),
                             getDuration(u.healthy_deadline),
                             getDuration(u.progress_deadline)>>))

getConstraints(d) ==
    [i \in 1..Len(d) |->
        [LTarget |-> d[i].attribute, Operand |-> d[i].operator,
         RTarget |-> d[i].value]]

\* the conversions int8(x) and uint8(x) of an int
int8(x) == ((x + 128) % 256) - 128
uint8(x) == x % 256

\* the spreads getSpreads builds
BuiltSpreads(d) ==
    [i \in 1..Len(d) |->
        [Attribute |-> d[i].attribute,
         Weight |-> int8(d[i].weight),
         SpreadTarget |-> [j \in 1..Len(d[i].target) |->
                             [Value |-> d[i].target[j].value,
                              Percent |-> uint8(d[i].target[j].percent)]]]]

getSpreads_ReturnBuilt(d) == BuiltSpreads(d)

\* the spreads are built and nil is returned
getSpreads(d) == <<>>

\* "x = append(empty, s)" for each s of the list: the last element alone
\* is kept, and nothing is assigned for an empty list
AppendToEmpty(list) == IF Len(list) = 0 THEN <<>> ELSE <<list[Len(list)]>>

\* the dns block of a network (a new DNSConfig for each block)
getDNS(d) ==
    IF Len(d) = 0 THEN Nil
    ELSE Ptr([Servers |-> AppendToEmpty(d[Len(d)].servers),
              Searches |-> AppendToEmpty(d[Len(d)].searches),
              Options |-> AppendToEmpty(d[Len(d)].options)])

getNetworks(d) ==
    [i \in 1..Len(d) |->
        [Mode |-> d[i].mode, MBits |-> intToPtr(d[i].mbits), DNS |-> getDNS(d[i].dns)]]

getLogConfig(d) ==
    IF Len(d) = 0 THEN Nil
    ELSE Ptr([MaxFiles |-> intToPtr(d[1].max_files),
              MaxFileSizeMB |-> intToPtr(d[1].max_file_size)])

getResources(d) ==
    IF Len(d) = 0 THEN Nil
    ELSE LET r == d[1]
         IN  Ptr([CPU |-> intToPtr(r.cpu),
                  MemoryMB |-> intToPtr(r.memory),
                  Networks |-> getNetworks(r.network),
                  Devices |-> [i \in 1..Len(r.device) |->
                                 [Name |-> r.device[i].name,
                                  Count |-> Ptr(r.device[i].count)]]])

getVault(d) ==
    IF Len(d) = 0 THEN Nil
    ELSE Ptr([Policies |-> d[1].policies,
              ChangeMode |-> strToPtr(d[1].change_mode)])

\* the dispatch_payload block of a task (the last element wins)
getDispatchPayload(d) ==
    IF Len(d) = 0 THEN Nil ELSE Ptr([File |-> d[Len(d)].file])

\* the lifecycle block of a task (the last element wins)
getLifecycle(d) ==
    IF Len(d) = 0 THEN Nil
    ELSE Ptr([Hook |-> d[Len(d)].hook, Sidecar |-> d[Len(d)].sidecar])

\* "if duration != nil { x = *duration }" on a time.Duration field
DurationValue(p) == IF IsNil(p) THEN 0 ELSE Deref(p)

\* the check_restart block of a check (the last element wins)
getCheckRestart(d) ==
    IF Len(d) = 0 THEN Ok(Nil)
    ELSE LET cr == d[Len(d)]
             rest(grace) ==
                 Ok(Ptr([Limit |-> cr.limit, Grace |-> grace,
                         IgnoreWarnings |-> cr.ignore_warnings]))
             \* if err != nil { return nil, err }
             checked(ret) == IF IsOk(ret) THEN rest(ret.val) ELSE ret
         IN  checked(getDuration(cr.grace))

\* the check blocks of a service
getChecks(d) ==
    AllOk([i \in 1..Len(d) |->
        LET c == d[i]
            rest(rs) ==
                Ok([Name |-> c.name,
                    Args |-> c.args,
                    CheckRestart |-> rs[1],
                    Timeout |-> DurationValue(rs[2]),
                    Interval |-> DurationValue(rs[3])])
            \* if err != nil { return nil, err }
            checked(ret) == IF IsOk(ret) THEN rest(ret.val) ELSE ret
        IN  checked(AllOk(<<getCheckRestart(c.check_restart), getDuration(c.timeout),
                            getDuration(c.interval)>>))])

getSidecarTask_AssignConfig(d) ==
    IF Len(d) = 0 THEN Ok(Nil)
    ELSE LET st == d[Len(d)]
             rest(rs) ==
                 Ok(Ptr([Name |-> st.Name,
                         Config |-> rs[1],
                         KillTimeout |-> rs[2],
                         ShutdownDelay |-> rs[3]]))
             checked(ret) == IF IsOk(ret) THEN rest(ret.val) ELSE ret
         IN  checked(AllOk(<<jsonUnmarshal(st.config), getDuration(st.kill_timeout),
                             getDuration(st.shutdown_delay)>>))

\* the sidecar_task block of a connect block (the last element wins): the
\* JSON text is decoded into the argument of getServices, and the local
\* config stays nil
getSidecarTask(d) ==
    IF Len(d) = 0 THEN Ok(Nil)
    ELSE LET st == d[Len(d)]
             rest(rs) ==
                 Ok(Ptr([Name |-> st.Name,
                         Config |-> Nil,
                         KillTimeout |-> rs[2],
                         ShutdownDelay |-> rs[3]]))
             \* if err != nil { return nil, err }
             checked(ret) == IF IsOk(ret) THEN rest(ret.val) ELSE ret
         IN  checked(AllOk(<<jsonUnmarshalAny(st.config), getDuration(st.kill_timeout),
                             getDuration(st.shutdown_delay)>>))

\* the proxy block of a sidecar_service (the last element wins)
getProxy(d) ==
    IF Len(d) = 0 THEN Ok(Nil)
    ELSE LET rest(config) ==
                 Ok(Ptr([Config |-> config]))
             \* if err != nil { return nil, err }
             checked(ret) == IF IsOk(ret) THEN rest(ret.val) ELSE ret
         IN  checked(jsonUnmarshal(d[Len(d)].config))

getSidecarService(d) ==
    IF Len(d) = 0 THEN Ok(Nil)
    ELSE LET ss == d[Len(d)]
             rest(consulProxy) ==
                 Ok(Ptr([Port |-> ss.port, Proxy |-> consulProxy]))
             \* if err != nil { return nil, err }
             checked(ret) == IF IsOk(ret) THEN rest(ret.val) ELSE ret
         IN  checked(getProxy(ss.proxy))

getConnect(d) ==
    IF Len(d) = 0 THEN Ok(Nil)
    ELSE LET cn == d[Len(d)]
             rest(rs) ==
                 Ok(Ptr([Native |-> cn.native,
                         SidecarService |-> rs[2],
                         SidecarTask |-> rs[1]]))
             \* if err != nil { return nil, err }
             checked(ret) == IF IsOk(ret) THEN rest(ret.val) ELSE ret
         IN  checked(AllOk(<<getSidecarTask(cn.sidecar_task),
                             getSidecarService(cn.sidecar_service)>>))

getServices(d) ==
    AllOk([i \in 1..Len(d) |->
        LET rest(rs) ==
                Ok([Name |-> d[i].name,
                    Tags |-> d[i].tags,
                    CanaryTags |-> d[i].canary_tags,
                    Checks |-> rs[1],
                    Connect |-> rs[2]])
            \* if err != nil { return nil, err }
            checked(ret) == IF IsOk(ret) THEN rest(ret.val) ELSE ret
        IN  checked(AllOk(<<getChecks(d[i].check), getConnect(d[i].connect)>>))])

\* the template blocks of a task
getTemplates(d) ==
    AllOk([i \in 1..Len(d) |->
        LET rest(splay) ==
                Ok([DestPath |-> strToPtr(d[i].destination), Splay |-> splay])
            \* if err != nil { return nil, err }
            checked(ret) == IF IsOk(ret) THEN rest(ret.val) ELSE ret
        IN  checked(getDuration(d[i].splay))])

getTasks(d) ==
    AllOk([i \in 1..Len(d) |->
        LET t == d[i]
            rest(rs) ==
                Ok([Name |-> t.name,
                    Config |-> rs[2],
                    DispatchPayload |-> getDispatchPayload(t.dispatch_payload),
                    Lifecycle |-> getLifecycle(t.lifecycle),
                    LogConfig |-> getLogConfig(t.logs),
                    Resources |-> getResources(t.resources),
                    Templates |-> rs[1],
                    Vault |-> getVault(t.vault),
                    KillTimeout |-> rs[3],
                    ShutdownDelay |-> DurationValue(rs[4])])
            \* if err != nil { return nil, err }
            checked(ret) == IF IsOk(ret) THEN rest(ret.val) ELSE ret
        IN  checked(AllOk(<<getTemplates(t.template), jsonUnmarshal(t.config),
                            getDuration(t.kill_timeout),
                            getDuration(t.shutdown_delay)>>))])

getEphemeralDisk_DefaultWhenEmpty(d) ==
    IF Len(d) = 0
    THEN Ptr([Sticky |-> boolToPtr(FALSE), Migrate |-> boolToPtr(FALSE),
              SizeMB |-> intToPtr(300)])
    ELSE LET e == d[Len(d)]
         IN  Ptr([Sticky |-> boolToPtr(e.sticky),
                  Migrate |-> boolToPtr(e.migrate),
                  SizeMB |-> intToPtr(e.size)])

getEphemeralDisk(d) ==
    IF Len(d) = 0 THEN Nil
    ELSE LET e == d[Len(d)]
         IN  Ptr([Sticky |-> boolToPtr(e.sticky),
                  Migrate |-> boolToPtr(e.migrate),
                  SizeMB |-> intToPtr(e.size)])

getRestartPolicy(d) ==
    IF Len(d) = 0 THEN Ok(Nil)
    ELSE LET r == d[Len(d)]
             rest(ds) ==
                 Ok(Ptr([Attempts |-> intToPtr(r.attempts),
                         Mode |-> strToPtr(r.mode),
                         Delay |-> ds[1],
                         Interval |-> ds[2]]))
             \* if err != nil { return nil, err }
             checked(ret) == IF IsOk(ret) THEN rest(ret.val) ELSE ret
         IN  checked(AllOk(<<getDuration(r.delay), getDuration(r.interval)>>))

getTaskGroups(d) ==
    AllOk([i \in 1..Len(d) |->
        LET g == d[i]
            rest(rs) ==
                Ok([Name |-> strToPtr(g.name),
                    Spreads |-> getSpreads(g.spread),
                    EphemeralDisk |-> getEphemeralDisk(g.ephemeral_disk),
                    Migrate |-> rs[1],
                    Networks |-> getNetworks(g.network),
                    ReschedulePolicy |-> rs[2],
                    RestartPolicy |-> rs[3],
                    Tasks |-> rs[4],
                    Services |-> rs[5],
                    ShutdownDelay |-> rs[6]])
            \* if err != nil { return nil, err }
            checked(ret) == IF IsOk(ret) THEN rest(ret.val) ELSE ret
        IN  checked(AllOk(<<getMigrate(g.migrate), getReschedule(g.reschedule),
                            getRestartPolicy(g.restart), getTasks(g.task),
                            getServices(g.service), getDuration(g.shutdown_delay)>>))])

\* the parameterized block of a job (the last element wins)
getParameterized(d) ==
    IF Len(d) = 0 THEN Nil
    ELSE Ptr([Payload |-> d[Len(d)].payload,
              MetaRequired |-> d[Len(d)].meta_required,
              MetaOptional |-> d[Len(d)].meta_optional])

getJob(d) ==
    LET rest(rs) ==
            Ok([ID |-> strToPtr(d.name),
                Name |-> Nil,
                Type |-> strToPtr(d.type),
                Datacenters |-> d.datacenters,
                Constraints |-> getConstraints(d.constraint),
                Spreads |-> getSpreads(d.spread),
                ParameterizedJob |-> getParameterized(d.parameterized),
                Update |-> rs[1],
                TaskGroups |-> rs[2]])
        \* if err != nil { return nil, err }
        checked(ret) == IF IsOk(ret) THEN rest(ret.val) ELSE ret
    IN  checked(AllOk(<<getUpdate(d.update), getTaskGroups(d.group)>>))

-----------------------------------------------------------------------------
(* Decoder: API object graph -> configuration tree                          *)
(*                                                                         *)
(* A block the decoder omits (a nil interface or an empty slice in the Go  *)
(* code) is the empty sequence: that is what d.Get returns for it once it  *)
(* has been stored.  A nil *string stored in a string attribute is "".     *)

StrOrEmpty(p) == IF IsNil(p) THEN "" ELSE Deref(p)

\* the error of an unsupported job type: fmt.Errorf("%q is not supported", _type)
NotSupported(_type) == Err("\"" \o _type \o "\" is not supported")

EphemeralDiskDefault == [migrate |-> FALSE, size |-> 300, sticky |-> FALSE]

\* the ephemeral_disk block of readGroups
readEphemeralDisk(set, disk) ==
    IF IsNil(disk) THEN Ok(<<>>)
    ELSE LET e == Deref(disk)
         IN  IF IsNil(e.Migrate) \/ IsNil(e.SizeMB) \/ IsNil(e.Sticky) THEN Panic
             ELSE LET v == [migrate |-> Deref(e.Migrate), size |-> Deref(e.SizeMB),
                            sticky |-> Deref(e.Sticky)]
                  IN  IF Len(set) > 0 \/ v # EphemeralDiskDefault
                      THEN Ok(<<v>>) ELSE Ok(<<>>)

RestartDefault_BatchAsService(_type) ==
    IF _type \in {"service", "batch", "system"}
    THEN Ok([attempts |-> 2, delay |-> "15s", interval |-> "30m0s", mode |-> "fail"])
    ELSE NotSupported(_type)

\* the default restart policy of a job type (readGroups)
RestartDefault(_type) ==
    IF _type = "service"
    THEN Ok([attempts |-> 2, delay |-> "15s", interval |-> "30m0s", mode |-> "fail"])
    ELSE IF _type = "batch"
    THEN Ok([attempts |-> 3, delay |-> "15s", interval |-> "24h0m0s", mode |-> "fail"])
    ELSE IF _type = "system"
    THEN Ok([attempts |-> 2, delay |-> "15s", interval |-> "30m0s", mode |-> "fail"])
    ELSE NotSupported(_type)

\* the restart block of readGroups
readRestart(_type, set, policy) ==
    IF IsNil(policy) THEN Ok(<<>>)
    ELSE LET p == Deref(policy)
         IN  IF IsNil(p.Attempts) \/ IsNil(p.Delay) \/ IsNil(p.Interval) \/ IsNil(p.Mode)
             THEN Panic
             ELSE LET r == [attempts |-> Deref(p.Attempts),
                            delay |-> DurationString(Deref(p.Delay)),
                            interval |-> DurationString(Deref(p.Interval)),
                            mode |-> Deref(p.Mode)]
                      rest(defaultValue) ==
                          IF Len(set) > 0 \/ r # defaultValue
                          THEN Ok(<<r>>) ELSE Ok(<<>>)
                      \* if err != nil { return nil, err }
                      checked(ret) == IF IsOk(ret) THEN rest(ret.val) ELSE ret
                  IN  checked(RestartDefault(_type))

MigrateDefault ==
    [max_parallel |-> 1, health_check |-> "checks",
     min_healthy_time |-> "10s", healthy_deadline |-> "5m0s"]

readMigrate(isSet, migrate) ==
    IF IsNil(migrate) THEN Ok(<<>>)
    ELSE LET m == Deref(migrate)
         IN  IF IsNil(m.MaxParallel) \/ IsNil(m.HealthCheck)
                \/ IsNil(m.MinHealthyTime) \/ IsNil(m.HealthyDeadline)
             THEN Panic
             ELSE LET res == [max_parallel |-> Deref(m.MaxParallel),
                              health_check |-> Deref(m.HealthCheck),
                              min_healthy_time |-> DurationString(Deref(m.MinHealthyTime)),
                              healthy_deadline |-> DurationString(Deref(m.HealthyDeadline))]
                  IN  IF ~isSet /\ res = MigrateDefault THEN Ok(<<>>) ELSE Ok(<<res>>)

RescheduleDefault_SystemAsBatch(_type) ==
    IF _type = "service"
    THEN Ok(Ptr([attempts |-> 0, interval |-> "0s", delay |-> "30s",
                 delay_function |-> "exponential", max_delay |-> "1h0m0s",
                 unlimited |-> TRUE]))
    ELSE IF _type = "batch" \/ _type = "system"
    THEN Ok(Ptr([attempts |-> 1, interval |-> "24h0m0s", delay |-> "5s",
                 delay_function |-> "constant", max_delay |-> "0s",
                 unlimited |-> FALSE]))
    ELSE NotSupported(_type)

\* the default reschedule policy of a job type (readReschedule); the
\* default of a system job is the empty map, which no policy equals
RescheduleDefault(_type) ==
    IF _type = "service"
    THEN Ok(Ptr([attempts |-> 0, interval |-> "0s", delay |-> "30s",
                 delay_function |-> "exponential", max_delay |-> "1h0m0s",
                 unlimited |-> TRUE]))
    ELSE IF _type = "batch"
    THEN Ok(Ptr([attempts |-> 1, interval |-> "24h0m0s", delay |-> "5s",
                 delay_function |-> "constant", max_delay |-> "0s",
                 unlimited |-> FALSE]))
    ELSE IF _type = "system"
    THEN Ok(Nil)
    ELSE NotSupported(_type)

readReschedule(_type, isSet, reschedule) ==
    IF IsNil(reschedule) THEN Ok(<<>>)
    ELSE LET p == Deref(reschedule)
         IN  IF IsNil(p.Attempts) \/ IsNil(p.Interval) \/ IsNil(p.Delay)
                \/ IsNil(p.DelayFunction) \/ IsNil(p.MaxDelay) \/ IsNil(p.Unlimited)
             THEN Panic
             ELSE LET res == [attempts |-> Deref(p.Attempts),
                              interval |-> DurationString(Deref(p.Interval)),
                              delay |-> DurationString(Deref(p.Delay)),
                              delay_function |-> Deref(p.DelayFunction),
                              max_delay |-> DurationString(Deref(p.MaxDelay)),
                              unlimited |-> Deref(p.Unlimited)]
                      rest(defaultValue) ==
                          IF ~isSet /\ Ptr(res) = defaultValue
                          THEN Ok(<<>>) ELSE Ok(<<res>>)
                      \* if err != nil { return nil, err }
                      checked(ret) == IF IsOk(ret) THEN rest(ret.val) ELSE ret
                  IN  checked(RescheduleDefault(_type))

UpdateDefault_SystemAsService(_type) ==
    IF _type = "service" \/ _type = "system"
    THEN Ok([auto_promote |-> FALSE, auto_revert |-> FALSE, canary |-> 0,
             health_check |-> "", healthy_deadline |-> "0s", max_parallel |-> 1,
             min_healthy_time |-> "0s", progress_deadline |-> "0s",
             stagger |-> "30s"])
    ELSE IF _type = "batch"
    THEN Ok([auto_promote |-> FALSE, auto_revert |-> FALSE, canary |-> 0,
             health_check |-> "", healthy_deadline |-> "0s", max_parallel |-> 0,
             min_healthy_time |-> "0s", progress_deadline |-> "0s",
             stagger |-> "0s"])
    ELSE NotSupported(_type)

\* the default update strategy of a job type (readUpdate)
UpdateDefault(_type) ==
    IF _type = "service"
    THEN Ok([auto_promote |-> FALSE, auto_revert |-> FALSE, canary |-> 0,
             health_check |-> "", healthy_deadline |-> "0s", max_parallel |-> 1,
             min_healthy_time |-> "0s", progress_deadline |-> "0s",
             stagger |-> "30s"])
    ELSE IF _type = "batch" \/ _type = "system"
    THEN Ok([auto_promote |-> FALSE, auto_revert |-> FALSE, canary |-> 0,
             health_check |-> "", healthy_deadline |-> "0s", max_parallel |-> 0,
             min_healthy_time |-> "0s", progress_deadline |-> "0s",
             stagger |-> "0s"])
    ELSE NotSupported(_type)

readUpdate(_type, set, update) ==
    IF IsNil(update) THEN Ok(<<>>)
    ELSE LET u == Deref(update)
         IN  IF IsNil(u.MaxParallel) \/ IsNil(u.HealthCheck) \/ IsNil(u.MinHealthyTime)
                \/ IsNil(u.HealthyDeadline) \/ IsNil(u.ProgressDeadline)
                \/ IsNil(u.AutoRevert) \/ IsNil(u.AutoPromote) \/ IsNil(u.Canary)
                \/ IsNil(u.Stagger)
             THEN Panic
             ELSE LET res == [max_parallel |-> Deref(u.MaxParallel),
                              health_check |-> Deref(u.HealthCheck),
                              min_healthy_time |-> DurationString(Deref(u.MinHealthyTime)),
                              healthy_deadline |-> DurationString(Deref(u.HealthyDeadline)),
                              progress_deadline |-> DurationString(Deref(u.ProgressDeadline)),
                              auto_revert |-> Deref(u.AutoRevert),
                              auto_promote |-> Deref(u.AutoPromote),
                              canary |-> Deref(u.Canary),
                              stagger |-> DurationString(Deref(u.Stagger))]
                      isSet == Len(set) > 0
                      rest(defaultValue) ==
                          IF ~isSet /\ res = defaultValue
                          THEN Ok(<<>>) ELSE Ok(<<res>>)
                      \* if err != nil { return nil, err }
                      checked(ret) == IF IsOk(ret) THEN rest(ret.val) ELSE ret
                  IN  checked(UpdateDefault(_type))

readDNS(dns) ==
    IF IsNil(dns) THEN <<>>
    ELSE <<[servers |-> Deref(dns).Servers, searches |-> Deref(dns).Searches,
            options |-> Deref(dns).Options]>>

readNetworks(networks) ==
    AllOk([i \in 1..Len(networks) |->
        IF IsNil(networks[i].MBits) THEN Panic
        ELSE Ok([mbits |-> Deref(networks[i].MBits), mode |-> networks[i].Mode,
                 dns |-> readDNS(networks[i].DNS)])])

readConstraints(constraints) ==
    [i \in 1..Len(constraints) |->
        [attribute |-> constraints[i].LTarget, operator |-> constraints[i].Operand,
         value |-> constraints[i].RTarget]]

readSpreads(spreads) ==
    [i \in 1..Len(spreads) |->
        [attribute |-> spreads[i].Attribute,
         weight |-> spreads[i].Weight,
         target |-> [j \in 1..Len(spreads[i].SpreadTarget) |->
                       [value |-> spreads[i].SpreadTarget[j].Value,
                        percent |-> spreads[i].SpreadTarget[j].Percent]]]]

readVault(vault) ==
    IF IsNil(vault) THEN <<>>
    ELSE <<[policies |-> Deref(vault).Policies,
            change_mode |-> StrOrEmpty(Deref(vault).ChangeMode)]>>

LogsDefault == [max_files |-> 10, max_file_size |-> 10]

readLogs(logs) ==
    IF IsNil(logs) THEN Ok(<<>>)
    ELSE LET l == Deref(logs)
         IN  IF IsNil(l.MaxFiles) \/ IsNil(l.MaxFileSizeMB) THEN Panic
             ELSE LET res == [max_files |-> Deref(l.MaxFiles),
                              max_file_size |-> Deref(l.MaxFileSizeMB)]
                  IN  IF res = LogsDefault THEN Ok(<<>>) ELSE Ok(<<res>>)

ResourcesDefault == [cpu |-> 100, device |-> <<>>, memory |-> 300, network |-> <<>>]

readResources(resources) ==
    IF IsNil(resources) THEN Ok(<<>>)
    ELSE LET r == Deref(resources)
             devices == [i \in 1..Len(r.Devices) |->
                           [name |-> r.Devices[i].Name,
                            count |-> Deref(r.Devices[i].Count)]]
             Suppress(res) == IF res = ResourcesDefault THEN Ok(<<>>) ELSE Ok(<<res>>)
         IN  IF IsNil(r.CPU) \/ IsNil(r.MemoryMB) THEN Panic
             ELSE LET rest(network) ==
                          Suppress([cpu |-> Deref(r.CPU), memory |-> Deref(r.MemoryMB),
                                    device |-> devices, network |-> network])
                      \* if err != nil { return nil, err }
                      checked(ret) == IF IsOk(ret) THEN rest(ret.val) ELSE ret
                  IN  checked(readNetworks(r.Networks))

\* the check_restart block of a check: the grace is stored as it is
readCheckRestart(checkRestart) ==
    IF IsNil(checkRestart) THEN <<>>
    ELSE <<[limit |-> Deref(checkRestart).Limit,
            grace |-> RawDuration(Deref(checkRestart).Grace),
            ignore_warnings |-> Deref(checkRestart).IgnoreWarnings]>>

readChecks(checks) ==
    [i \in 1..Len(checks) |->
        [name |-> checks[i].Name,
         args |-> checks[i].Args,
         interval |-> DurationString(checks[i].Interval),
         timeout |-> DurationString(checks[i].Timeout),
         check_restart |-> readCheckRestart(checks[i].CheckRestart)]]

readServices(services) ==
    [i \in 1..Len(services) |->
        LET sv == services[i]
            proxyOf(ss) ==
                IF IsNil(ss.Proxy) THEN <<>>
                ELSE <<[config |-> jsonMarshal(Deref(ss.Proxy).Config)]>>
            sidecarService(c) ==
                IF IsNil(c.SidecarService) THEN <<>>
                ELSE <<[port |-> Deref(c.SidecarService).Port,
                        proxy |-> proxyOf(Deref(c.SidecarService))]>>
            connect ==
                IF IsNil(sv.Connect) THEN <<>>
                ELSE <<[native |-> Deref(sv.Connect).Native,
                        sidecar_service |-> sidecarService(Deref(sv.Connect)),
                        sidecar_task |-> <<>>]>>
        IN  [name |-> sv.Name, tags |-> sv.Tags, canary_tags |-> sv.CanaryTags,
             check |-> readChecks(sv.Checks), connect |-> connect]]

readDispatchPayload(dispatchPayload) ==
    IF IsNil(dispatchPayload) THEN <<>> ELSE <<[file |-> Deref(dispatchPayload).File]>>

readLifecycle(lifecycle) ==
    IF IsNil(lifecycle) THEN <<>>
    ELSE <<[hook |-> Deref(lifecycle).Hook, sidecar |-> Deref(lifecycle).Sidecar]>>

\* the template blocks of readTasks
readTemplates(templates) ==
    AllOk([i \in 1..Len(templates) |->
        LET rest(splay) ==
                Ok([destination |-> StrOrEmpty(templates[i].DestPath), splay |-> splay])
            checked(ret) == IF IsOk(ret) THEN rest(ret.val) ELSE ret
        IN  checked(PtrDurationString(templates[i].Splay))])

readTasks(tasks) ==
    AllOk([i \in 1..Len(tasks) |->
        LET t == tasks[i]
            rest(rs) ==
                Ok([name |-> t.Name,
                    config |-> jsonMarshal(t.Config),
                    kill_timeout |-> rs[2],
                    shutdown_delay |-> DurationString(t.ShutdownDelay),
                    dispatch_payload |-> readDispatchPayload(t.DispatchPayload),
                    lifecycle |-> readLifecycle(t.Lifecycle),
                    logs |-> rs[3],
                    resources |-> rs[4],
                    template |-> rs[1],
                    vault |-> readVault(t.Vault)])
            \* if err != nil { return nil, err }
            checked(ret) == IF IsOk(ret) THEN rest(ret.val) ELSE ret
        IN  checked(AllOk(<<readTemplates(t.Templates), PtrDurationString(t.KillTimeout),
                            readLogs(t.LogConfig), readResources(t.Resources)>>))])

\* one iteration of the loop of readGroups: groupsConfig[i] is read first
readGroup(_type, groupsConfig, i, g) ==
    IF i > Len(groupsConfig) THEN Panic
    ELSE LET currentConfig == groupsConfig[i]
             rest(rs) ==
                 Ok([name |-> StrOrEmpty(g.Name),
                     ephemeral_disk |-> rs[1],
                     restart |-> rs[2],
                     task |-> rs[3],
                     service |-> readServices(g.Services),
                     spread |-> readSpreads(g.Spreads),
                     network |-> rs[6],
                     reschedule |-> rs[4],
                     migrate |-> rs[5],
                     shutdown_delay |-> IF IsNil(g.ShutdownDelay) THEN ""
                                        ELSE DurationString(Deref(g.ShutdownDelay))])
             \* if err != nil { return nil, err }
             checked(ret) == IF IsOk(ret) THEN rest(ret.val) ELSE ret
         IN  checked(AllOk(<<readEphemeralDisk(currentConfig.ephemeral_disk, g.EphemeralDisk),
                             readRestart(_type, currentConfig.restart, g.RestartPolicy),
                             readTasks(g.Tasks),
                             readReschedule(_type, Len(currentConfig.reschedule) > 0,
                                            g.ReschedulePolicy),
                             readMigrate(Len(currentConfig.migrate) > 0, g.Migrate),
                             readNetworks(g.Networks)>>))

readGroups(_type, groupsConfig, groups) ==
    AllOk([i \in 1..Len(groups) |-> readGroup(_type, groupsConfig, i, groups[i])])

-----------------------------------------------------------------------------
(* Lifecycle driver *)

\* strings.Contains on texts represented as sequences of characters
Contains(text, pat) ==
    \E i \in 1..(Len(text) - Len(pat) + 1) :
        \A j \in 1..Len(pat) : text[i + j - 1] = pat[j]

Text404 == <<"4", "0", "4">>

\* helper.StateWriter.Set: the attribute is written at once
swSet(a, key, value) == [a EXCEPT ![key] = value]

ApiCall(api, jobID, purge) == [api |-> api, id |-> jobID, purge |-> purge]

Outcome(newId, newAttrs, result, calls) ==
    [id |-> newId, attrs |-> newAttrs, result |-> result, calls |-> calls]

\* the outcome of a decoding step that did not succeed: an error is
\* returned with the attributes written so far; a panic ends the process
\* and the handle is lost
Failed(r, id0, attrs0, written, calls) ==
    IF r.st = "panic" THEN Outcome(id0, attrs0, "panic", calls)
    ELSE Outcome(id0, written, "err", calls)

readParameterized(parameterizedJob) ==
    IF IsNil(parameterizedJob) THEN <<>>
    ELSE <<[meta_optional |-> Deref(parameterizedJob).MetaOptional,
            meta_required |-> Deref(parameterizedJob).MetaRequired,
            payload |-> Deref(parameterizedJob).Payload]>>

\* the attributes resourceJobV2Read writes before it decodes the groups
setScalars(a, job) ==
    swSet(swSet(swSet(swSet(swSet(a,
        "type", StrOrEmpty(job.Type)),
        "datacenters", job.Datacenters),
        "name", StrOrEmpty(job.Name)),
        "constraint", readConstraints(job.Constraints)),
        "spread", readSpreads(job.Spreads))

\* resourceJobV2Read after a successful fetch: the attributes are written
\* one by one, the groups and the update block after they are decoded
decodeJob(id0, attrs0, job, calls) ==
    LET setUpdate(a2, update) ==
            IF ~IsOk(update) THEN Failed(update, id0, attrs0, a2, calls)
            ELSE Outcome(id0, swSet(a2, "update", update.val), "ok", calls)
        decodeUpdate(a2) == setUpdate(a2, readUpdate(a2.type, a2.update, job.Update))
        setGroups(a1, groups) ==
            IF ~IsOk(groups) THEN Failed(groups, id0, attrs0, a1, calls)
            ELSE decodeUpdate(swSet(swSet(a1, "group", groups.val),
                                    "parameterized",
                                    readParameterized(job.ParameterizedJob)))
        decodeGroups(a1) == setGroups(a1, readGroups(a1.type, a1.group, job.TaskGroups))
    IN  decodeGroups(setScalars(attrs0, job))

resourceJobV2Read_NotFoundIsError(id0, attrs0, info) ==
    LET calls == <<ApiCall("Info", id0, FALSE)>>
    IN  IF info.kind # "ok" THEN Outcome(id0, attrs0, "err", calls)
        ELSE decodeJob(id0, attrs0, Deref(info.job), calls)

resourceJobV2Read_Retry(id0, attrs0, info) ==
    LET once == <<ApiCall("Info", id0, FALSE)>>
        calls == once \o once
    IN  IF info.kind # "ok"
        THEN IF Contains(info.text, Text404)
             THEN Outcome("", attrs0, "ok", calls)
             ELSE Outcome(id0, attrs0, "err", calls)
        ELSE decodeJob(id0, attrs0, Deref(info.job), once)

\* info is the answer of client.Jobs().Info(d.Id(), nil)
resourceJobV2Read(id0, attrs0, info) ==
    LET calls == <<ApiCall("Info", id0, FALSE)>>
    IN  IF info.kind # "ok"
        THEN IF Contains(info.text, Text404)
             THEN Outcome("", attrs0, "ok", calls)
             ELSE Outcome(id0, attrs0, "err", calls)
        ELSE decodeJob(id0, attrs0, Deref(info.job), calls)

resourceJobV2Register_IgnoreSubmitError(id0, attrs0, submit, info) ==
    LET readBack(call, r) == Outcome(r.id, r.attrs, r.result, <<call>> \o r.calls)
        submitJob(job) ==
            IF ~IsOk(job) THEN Outcome(id0, attrs0, "err", <<>>)
            ELSE readBack(ApiCall("Register", StrOrEmpty(job.val.ID), FALSE),
                          resourceJobV2Read(attrs0.name, attrs0, info))
    IN  submitJob(getJob(attrs0))

resourceJobV2Register_SetIdBeforeSubmit(id0, attrs0, submit, info) ==
    LET readBack(call, r) == Outcome(r.id, r.attrs, r.result, <<call>> \o r.calls)
        submitCall(call) ==
            IF submit # "ok" THEN Outcome(attrs0.name, attrs0, "err", <<call>>)
            ELSE readBack(call, resourceJobV2Read(attrs0.name, attrs0, info))
        submitJob(job) ==
            IF ~IsOk(job) THEN Outcome(id0, attrs0, "err", <<>>)
            ELSE submitCall(ApiCall("Register", StrOrEmpty(job.val.ID), FALSE))
    IN  submitJob(getJob(attrs0))

\* attrs0 is the configuration handed to create or update; submit is the
\* outcome of client.Jobs().Register and info the answer of the read-back
resourceJobV2Register(id0, attrs0, submit, info) ==
    LET readBack(call, r) == Outcome(r.id, r.attrs, r.result, <<call>> \o r.calls)
        submitCall(call) ==
            IF submit # "ok" THEN Outcome(id0, attrs0, "err", <<call>>)
            ELSE readBack(call, resourceJobV2Read(attrs0.name, attrs0, info))
        submitJob(job) ==
            IF ~IsOk(job) THEN Outcome(id0, attrs0, "err", <<>>)
            ELSE submitCall(ApiCall("Register", StrOrEmpty(job.val.ID), FALSE))
    IN  submitJob(getJob(attrs0))

resourceJobV2Deregister_NoPurge(id0, attrs0, outcome) ==
    IF outcome # "ok"
    THEN Outcome(id0, attrs0, "err", <<ApiCall("Deregister", id0, FALSE)>>)
    ELSE Outcome("", attrs0, "ok", <<ApiCall("Deregister", id0, FALSE)>>)

\* outcome is the outcome of client.Jobs().Deregister(d.Id(), true, nil)
resourceJobV2Deregister(id0, attrs0, outcome) ==
    LET calls == <<ApiCall("Deregister", id0, TRUE)>>
    IN  IF outcome # "ok" THEN Outcome(id0, attrs0, "err", calls)
        ELSE Outcome("", attrs0, "ok", calls)

-----------------------------------------------------------------------------
(* Configurations and API answers of the lifecycle specification *)

Names == {"a", "b"}

\* "sysbatch" is a job type the service knows and the decoder does not
Types == {"service", "batch", "system", "sysbatch"}

PlainTask(config) ==
    [name |-> "t", config |-> config, logs |-> <<>>, resources |-> <<>>,
     kill_timeout |-> "5s", shutdown_delay |-> "", template |-> <<>>,
     vault |-> <<>>, dispatch_payload |-> <<>>, lifecycle |-> <<>>]

PlainService ==
    [name |-> "s", tags |-> <<>>, canary_tags |-> <<>>, check |-> <<>>,
     connect |-> <<>>]

ProxyService(config) ==
    [PlainService EXCEPT
       !.connect = <<[native |-> FALSE,
                      sidecar_task |-> <<>>,
                      sidecar_service |-> <<[port |-> "p",
                                             proxy |-> <<[config |-> config]>>]>>]>>]

PlainGroup ==
    [name |-> "g", ephemeral_disk |-> <<>>, restart |-> <<>>, reschedule |-> <<>>,
     migrate |-> <<>>, shutdown_delay |-> "", task |-> <<PlainTask("{}")>>,
     service |-> <<>>, spread |-> <<>>, network |-> <<>>]

RestartBlock(attempts, delay, interval, mode) ==
    [attempts |-> attempts, delay |-> delay, interval |-> interval, mode |-> mode]

UpdateBlock(max_parallel, stagger) ==
    [max_parallel |-> max_parallel, health_check |-> "", min_healthy_time |-> "0s",
     healthy_deadline |-> "0s", progress_deadline |-> "0s", auto_revert |-> FALSE,
     auto_promote |-> FALSE, canary |-> 0, stagger |-> stagger]

GroupVariants ==
    {"plain", "restart", "zeroDelay", "badDelay", "badRestart", "badTask", "badProxy"}

LifeGroup(v) ==
    IF v = "restart"
    THEN [PlainGroup EXCEPT !.restart = <<RestartBlock(2, "15s", "30m", "fail")>>]
    ELSE IF v = "zeroDelay" THEN [PlainGroup EXCEPT !.shutdown_delay = "0s"]
    ELSE IF v = "badDelay" THEN [PlainGroup EXCEPT !.shutdown_delay = "bad"]
    ELSE IF v = "badRestart"
    THEN [PlainGroup EXCEPT !.restart = <<RestartBlock(2, "15s", "15", "fail")>>]
    ELSE IF v = "badTask" THEN [PlainGroup EXCEPT !.task = <<PlainTask("{")>>]
    ELSE IF v = "badProxy" THEN [PlainGroup EXCEPT !.service = <<ProxyService("[1]")>>]
    ELSE PlainGroup

Config(name, _type, update, group) ==
    [name |-> name, type |-> _type, update |-> update, group |-> group,
     datacenters |-> <<>>, constraint |-> <<>>, spread |-> <<>>,
     parameterized |-> <<>>]

\* k groups, the last of which is the variant
LifeGroups(v, k) == [i \in 1..k |-> IF i = k THEN LifeGroup(v) ELSE PlainGroup]

LifeTypes == {"service", "sysbatch"}

\* the job type of the configuration matters to the service only: the
\* decoder reads the type the service returns
LifeConfigs ==
    {Config(n, t, <<>>, <<>>) : n \in Names, t \in LifeTypes}
    \cup {Config(n, "service", <<UpdateBlock(1, "bad")>>, <<>>) : n \in Names}
    \cup UNION {{Config(n, "service", <<>>, LifeGroups(v, k)) : n \in Names} :
                  v \in GroupVariants, k \in 1..MaxGroups}

ApiRestart(attempts, delay, interval, mode) ==
    Ptr([Attempts |-> attempts, Delay |-> delay, Interval |-> interval, Mode |-> mode])

ApiGroup ==
    [Name |-> Ptr("g"), EphemeralDisk |-> Nil, Migrate |-> Nil,
     ReschedulePolicy |-> Nil, RestartPolicy |-> Nil, Tasks |-> <<>>,
     Services |-> <<>>, ShutdownDelay |-> Nil, Spreads |-> <<>>,
     Networks |-> <<>>]

ApiJob(jobID, _type, update, groups) ==
    [ID |-> Ptr(jobID), Name |-> Ptr(jobID), Type |-> Ptr(_type),
     Update |-> update, TaskGroups |-> groups, Datacenters |-> <<>>,
     Constraints |-> <<>>, Spreads |-> <<>>, ParameterizedJob |-> Nil]

RestartGroup ==
    [ApiGroup EXCEPT !.RestartPolicy = ApiRestart(Ptr(2), Ptr(15), Ptr(1800), Ptr("fail"))]

\* the answers of Info
NoInfo == [kind |-> "none", text |-> <<>>, job |-> Nil]
OkInfo(job) == [kind |-> "ok", text |-> <<>>, job |-> Ptr(job)]
\* the client's error for an HTTP 404: "Unexpected response code: 404 (...)"
NotFoundText == <<":", "4", "0", "4">>
NotFoundInfo == [kind |-> "notfound", text |-> NotFoundText, job |-> Nil]
OtherInfo(text) == [kind |-> "other", text |-> text, job |-> Nil]

ErrAlphabet == {"4", "0"}
\* the texts of the other errors: the texts of "4" and "0" in alternation,
\* of which those with three characters or more that start with "4", and
\* those with four or more, contain "404"
ErrTexts ==
    UNION {{t \in [1..n -> ErrAlphabet] : \A i \in 1..(n - 1) : t[i] # t[i + 1]} :
             n \in 0..MaxErrLen}

LifeJobs(jobID) ==
    {ApiJob(jobID, t, Nil, gs) : t \in LifeTypes,
                                 gs \in {<<>>} \cup {[i \in 1..k |-> RestartGroup] : k \in 1..MaxGroups}}

\* the answers Info can give to a request for jobID
LifeInfos ==
    [jobID \in Names |->
        {OkInfo(j) : j \in LifeJobs(jobID)} \cup {NotFoundInfo}
        \cup {OtherInfo(t) : t \in ErrTexts}]

-----------------------------------------------------------------------------
(* The lifecycle specification *)

NoOp ==
    [op |-> "none", result |-> "ok", calls |-> <<>>, preId |-> "",
     preAttrs |-> Config("a", "service", <<>>, <<>>), submit |-> "none",
     info |-> NoInfo]

Init ==
    /\ id = ""
    /\ attrs = Config("a", "service", <<>>, <<>>)
    /\ last = NoOp

\* the handle after a handler returned, and the record of the invocation
Returned(o, op, preAttrs, submit, info) ==
    /\ id' = o.id
    /\ attrs' = o.attrs
    /\ last' = [op |-> op, result |-> o.result, calls |-> o.calls,
                preId |-> id, preAttrs |-> preAttrs,
                submit |-> IF op = "register" /\ Len(o.calls) = 0 THEN "none" ELSE submit,
                info |-> IF op = "register" /\ Len(o.calls) < 2 THEN NoInfo ELSE info]

DoRegister(c, submit, info) ==
    Returned(resourceJobV2Register(id, c, submit, info), "register", c, submit, info)

DoRead(info) ==
    Returned(resourceJobV2Read(id, attrs, info), "read", attrs, "none", info)

DoDeregister(outcome) ==
    Returned(resourceJobV2Deregister(id, attrs, outcome), "deregister", attrs,
             outcome, NoInfo)

\* create (no identity yet) or update; the API is asked only as far as
\* the handler gets
Register ==
    \E c \in LifeConfigs :
        IF ~IsOk(getJob(c)) THEN DoRegister(c, "none", NoInfo)
        ELSE \/ DoRegister(c, "err", NoInfo)
             \/ \E info \in LifeInfos[c.name] : DoRegister(c, "ok", info)

\* refresh of a resource that has an identity
Read == id # "" /\ \E info \in LifeInfos[id] : DoRead(info)

\* delete of a resource that has an identity
Deregister == id # "" /\ \E outcome \in {"ok", "err"} : DoDeregister(outcome)

Next == Register \/ Read \/ Deregister

Spec == Init /\ [][Next]_vars

-----------------------------------------------------------------------------
(* Configurations and API answers of the decoding specification *)

\* the optional blocks with a default the decoder may suppress
SuppressedBlocks ==
    {"ephemeral_disk", "restart", "reschedule", "migrate", "update", "logs",
     "resources"}

\* a prior configuration that declares the blocks of the set declared (with
\* the values of a service job's defaults) in its last group, of k groups
DeclaredGroup(declared) ==
    [name |-> "g",
     ephemeral_disk |-> IF "ephemeral_disk" \in declared
                        THEN <<EphemeralDiskDefault>> ELSE <<>>,
     restart |-> IF "restart" \in declared
                 THEN <<RestartBlock(2, "15s", "30m", "fail")>> ELSE <<>>,
     reschedule |-> IF "reschedule" \in declared
                    THEN <<[attempts |-> 0, interval |-> "", delay |-> "30s",
                            delay_function |-> "exponential", max_delay |-> "1h",
                            unlimited |-> TRUE]>>
                    ELSE <<>>,
     migrate |-> IF "migrate" \in declared THEN <<MigrateDefault>> ELSE <<>>,
     shutdown_delay |-> "", spread |-> <<>>, network |-> <<>>,
     task |-> <<[PlainTask("{}") EXCEPT
                   !.logs = IF "logs" \in declared THEN <<LogsDefault>> ELSE <<>>,
                   !.resources = IF "resources" \in declared
                                 THEN <<ResourcesDefault>> ELSE <<>>]>>,
     service |-> <<>>]

DecodeConfig(declared, k) ==
    Config("a", "service",
           IF "update" \in declared THEN <<UpdateBlock(1, "30s")>> ELSE <<>>,
           [i \in 1..k |-> IF i = k THEN DeclaredGroup(declared) ELSE PlainGroup])

DecodeConfigs ==
    {DecodeConfig(declared, k) : declared \in SUBSET SuppressedBlocks,
                                 k \in 0..MaxGroups}

ApiEphemeralDisks ==
    {Ptr([Sticky |-> Ptr(FALSE), Migrate |-> Ptr(FALSE), SizeMB |-> Ptr(n)]) :
        n \in {300, 500}}

\* restart policies, one of them with an unset delay
ApiRestarts ==
    {ApiRestart(Ptr(a), Ptr(15), Ptr(i), Ptr(m)) :
        a \in 2..MaxAttempts, i \in {1800, 86400}, m \in {"fail", "delay"}}
    \cup {ApiRestart(Ptr(2), Nil, Ptr(1800), Ptr("fail"))}

ApiReschedule(attempts, interval, delay, delayFunction, maxDelay, unlimited) ==
    Ptr([Attempts |-> Ptr(attempts), Interval |-> Ptr(interval), Delay |-> Ptr(delay),
         DelayFunction |-> Ptr(delayFunction), MaxDelay |-> Ptr(maxDelay),
         Unlimited |-> Ptr(unlimited)])

ApiReschedules ==
    {ApiReschedule(0, 0, 30, "exponential", 3600, TRUE),
     ApiReschedule(1, 86400, 5, "constant", 0, FALSE),
     ApiReschedule(1, 0, 30, "exponential", 3600, TRUE),
     ApiReschedule(0, 0, 30, "exponential", 3600, FALSE),
     ApiReschedule(1, 86400, 5, "constant", 3600, FALSE)}

ApiMigrates ==
    {Ptr([MaxParallel |-> Ptr(n), HealthCheck |-> Ptr("checks"),
          MinHealthyTime |-> Ptr(10), HealthyDeadline |-> Ptr(300)]) : n \in {1, 2}}

ApiUpdate(maxParallel, stagger, canary) ==
    Ptr([MaxParallel |-> Ptr(maxParallel), HealthCheck |-> Ptr(""),
         MinHealthyTime |-> Ptr(0), HealthyDeadline |-> Ptr(0),
         ProgressDeadline |-> Ptr(0), AutoRevert |-> Ptr(FALSE),
         AutoPromote |-> Ptr(FALSE), Canary |-> Ptr(canary),
         Stagger |-> Ptr(stagger)])

ApiUpdates ==
    {ApiUpdate(1, 30, 0), ApiUpdate(0, 0, 0), ApiUpdate(1, 30, 1), ApiUpdate(0, 30, 0),
     ApiUpdate(1, 0, 0)}

ApiLogs ==
    {Ptr([MaxFiles |-> Ptr(n), MaxFileSizeMB |-> Ptr(10)]) : n \in {5, 10}}

ApiResources ==
    {Ptr([CPU |-> Ptr(cpu), MemoryMB |-> Ptr(300), Networks |-> <<>>,
          Devices |-> devices]) :
        cpu \in {100, 200},
        devices \in {<<>>, <<[Name |-> "gpu", Count |-> Ptr(1)]>>}}

ApiTask ==
    [Name |-> "t", Config |-> Ptr(EmptyMap), LogConfig |-> Nil, Resources |-> Nil,
     KillTimeout |-> Ptr(5), ShutdownDelay |-> 0, Templates |-> <<>>,
     Vault |-> Nil, DispatchPayload |-> Nil, Lifecycle |-> Nil]

\* the task groups the service returns: one optional block at a time
ApiGroups ==
    {ApiGroup}
    \cup {[ApiGroup EXCEPT !.EphemeralDisk = v] : v \in ApiEphemeralDisks}
    \cup {[ApiGroup EXCEPT !.RestartPolicy = v] : v \in ApiRestarts}
    \cup {[ApiGroup EXCEPT !.ReschedulePolicy = v] : v \in ApiReschedules}
    \cup {[ApiGroup EXCEPT !.Migrate = v] : v \in ApiMigrates}
    \cup {[ApiGroup EXCEPT !.Tasks = <<[ApiTask EXCEPT !.LogConfig = v]>>] :
            v \in ApiLogs}
    \cup {[ApiGroup EXCEPT !.Tasks = <<[ApiTask EXCEPT !.Resources = v]>>] :
            v \in ApiResources}

\* k groups, the last of which carries the block
DecodeJobs ==
    UNION {{ApiJob("a", t, Nil, [i \in 1..k |-> IF i = k THEN g ELSE ApiGroup]) :
              g \in ApiGroups, k \in 1..MaxGroups}
           \cup {ApiJob("a", t, u, [i \in 1..k |-> ApiGroup]) :
                   u \in ApiUpdates, k \in 0..MaxGroups} :
           t \in Types}

DecodeInfos == {OkInfo(j) : j \in DecodeJobs}

-----------------------------------------------------------------------------
(* The decoding specification: one read of a stored resource, for every   *)
(* prior configuration and every answer of the service                     *)

InitDecode ==
    /\ id = "a"
    /\ attrs \in DecodeConfigs
    /\ last = NoOp

ReadOnce == last.op = "none" /\ \E info \in DecodeInfos : DoRead(info)

NextDecode == ReadOnce

SpecDecode == InitDecode /\ [][NextDecode]_vars

-----------------------------------------------------------------------------
(* Configurations of the encoding specification *)

MaxList == 2

ListElements == {"x", "y"}

\* the lists of a list-valued attribute
Lists == UNION {[1..n -> ListElements] : n \in 0..MaxList}

\* the optional blocks a configuration may declare
BlockNames ==
    {"migrate", "reschedule", "restart", "ephemeral_disk", "update",
     "dispatch_payload", "lifecycle", "vault", "logs", "resources", "connect",
     "sidecar_service", "proxy", "sidecar_task", "check_restart", "dns",
     "parameterized"}

\* the blocks inside a block
Inside(b) ==
    IF b = "connect" THEN {"sidecar_service", "proxy", "sidecar_task"}
    ELSE IF b = "sidecar_service" THEN {"proxy"}
    ELSE {}

\* the block is declared, by itself or for a block inside it
Declared(bs, b) == b \in bs \/ Inside(b) \cap bs # {}

Block(bs, b, value) == IF Declared(bs, b) THEN <<value>> ELSE <<>>

SpreadBlock(weight, percent) ==
    [attribute |-> "dc", weight |-> weight,
     target |-> <<[value |-> "dc1", percent |-> percent]>>]

\* the spread blocks of a configuration: none, one, one with no target and
\* one with a target
SpreadChoices ==
    {<<>>, <<SpreadBlock(50, 100)>>,
     <<[SpreadBlock(50, 100) EXCEPT !.target = <<>>], SpreadBlock(100, 50)>>}

CodecTask(bs, dur, list, json) ==
    [name |-> "t", config |-> json, kill_timeout |-> dur, shutdown_delay |-> dur,
     template |-> <<[destination |-> "d", splay |-> dur]>>,
     vault |-> Block(bs, "vault", [policies |-> list, change_mode |-> ""]),
     dispatch_payload |-> Block(bs, "dispatch_payload", [file |-> "f"]),
     lifecycle |-> Block(bs, "lifecycle", [hook |-> "prestart", sidecar |-> FALSE]),
     logs |-> Block(bs, "logs", [max_files |-> 5, max_file_size |-> 10]),
     resources |-> Block(bs, "resources",
                         [cpu |-> 200, memory |-> 300, device |-> <<>>,
                          network |-> <<>>])]

CodecService(bs, dur, list, json) ==
    [name |-> "s", tags |-> list, canary_tags |-> list,
     check |-> <<[name |-> "c", args |-> list, timeout |-> dur, interval |-> dur,
                  check_restart |->
                      Block(bs, "check_restart",
                            [limit |-> 1, grace |-> dur,
                             ignore_warnings |-> FALSE])]>>,
     connect |->
         Block(bs, "connect",
               [native |-> FALSE,
                sidecar_task |->
                    Block(bs, "sidecar_task",
                          [Name |-> "st", config |-> json, kill_timeout |-> dur,
                           shutdown_delay |-> dur]),
                sidecar_service |->
                    Block(bs, "sidecar_service",
                          [port |-> "p",
                           proxy |-> Block(bs, "proxy", [config |-> json])])])]

CodecGroup(bs, dur, list, json, spreads) ==
    [name |-> "g",
     ephemeral_disk |-> Block(bs, "ephemeral_disk",
                              [sticky |-> TRUE, migrate |-> FALSE, size |-> 300]),
     restart |-> Block(bs, "restart",
                       [attempts |-> 2, delay |-> dur, interval |-> dur,
                        mode |-> "fail"]),
     reschedule |-> Block(bs, "reschedule",
                          [attempts |-> 1, interval |-> dur, delay |-> dur,
                           delay_function |-> "constant", max_delay |-> dur,
                           unlimited |-> FALSE]),
     migrate |-> Block(bs, "migrate",
                       [max_parallel |-> 2, health_check |-> "checks",
                        min_healthy_time |-> dur, healthy_deadline |-> dur]),
     shutdown_delay |-> dur,
     spread |-> spreads,
     network |-> <<[mode |-> "bridge", mbits |-> 10,
                    dns |-> Block(bs, "dns",
                                  [servers |-> list, searches |-> list,
                                   options |-> list])]>>,
     task |-> <<CodecTask(bs, dur, list, json)>>,
     service |-> <<CodecService(bs, dur, list, json)>>]

\* a configuration of one group, one task and one service that declares
\* the blocks bs, with the text dur in every duration attribute, the list in
\* every list attribute and the text json in every free-form config
CodecConfig(_type, bs, dur, list, json, spreads) ==
    [name |-> "a", type |-> _type,
     datacenters |-> list,
     constraint |-> <<[attribute |-> "x", operator |-> "=", value |-> "y"]>>,
     spread |-> spreads,
     parameterized |-> Block(bs, "parameterized",
                             [payload |-> "optional", meta_required |-> list,
                              meta_optional |-> list]),
     update |-> Block(bs, "update",
                      [max_parallel |-> 2, health_check |-> "checks",
                       min_healthy_time |-> dur, healthy_deadline |-> dur,
                       progress_deadline |-> dur, auto_revert |-> FALSE,
                       auto_promote |-> FALSE, canary |-> 0, stagger |-> dur]),
     group |-> <<CodecGroup(bs, dur, list, json, spreads)>>]

BlockChoices == {{}, BlockNames} \cup {{b} : b \in BlockNames}

CodecDurations == {"", "0s", "15s", "bad"}

CodecJsonTexts ==
    {"{}", "{ \"a\": 1 }", "{\"b\":1,\"a\":{\"b\":2}}", BigNumberText, "{"}

\* every job type with every choice of blocks and every duration text, and
\* every list with every free-form text and every choice of spreads
CodecConfigs ==
    {CodecConfig(t, bs, dur, <<"x">>, "{}", <<>>) :
        t \in Types, bs \in BlockChoices, dur \in CodecDurations}
    \cup {CodecConfig("service", BlockNames, "15s", list, json, spreads) :
            list \in Lists, json \in CodecJsonTexts, spreads \in SpreadChoices}

-----------------------------------------------------------------------------
(* The encoding specification: a configuration is encoded, and the encoded *)
(* job is decoded against the configuration it came from                   *)

InitEncode ==
    /\ id = "a"
    /\ attrs \in CodecConfigs
    /\ last = NoOp

\* the record of an encoding: job is what getJob returned
Encoded(job, info) ==
    /\ last' = [op |-> "encode", result |-> job.st, calls |-> <<>>, preId |-> id,
                preAttrs |-> attrs, submit |-> "none", info |-> info, job |-> job]
    /\ UNCHANGED <<id, attrs>>

Encode == last.op = "none" /\ Encoded(getJob(attrs), NoInfo)

\* the job with the configuration of every sidecar task filled in, as the
\* service does for the proxy task it runs
ServiceCompleted(job) ==
    [job EXCEPT !.TaskGroups =
        [i \in 1..Len(job.TaskGroups) |->
            [job.TaskGroups[i] EXCEPT !.Services =
                [j \in 1..Len(job.TaskGroups[i].Services) |->
                    LET sv == job.TaskGroups[i].Services[j]
                        completed(connect) ==
                            IF IsNil(connect.SidecarTask) THEN connect
                            ELSE [connect EXCEPT !.SidecarTask =
                                     Ptr([Deref(connect.SidecarTask) EXCEPT
                                            !.Config = Ptr(MapA1)])]
                    IN  IF IsNil(sv.Connect) THEN sv
                        ELSE [sv EXCEPT !.Connect = Ptr(completed(Deref(sv.Connect)))]]]]]

\* the service returns the job as it was submitted, or with its sidecar
\* tasks completed
DecodeEncoded ==
    /\ last.op = "encode" /\ IsOk(last.job)
    /\ \E x \in {last.job.val, ServiceCompleted(last.job.val)} : DoRead(OkInfo(x))

NextEncode == Encode \/ DecodeEncoded

SpecEncode == InitEncode /\ [][NextEncode]_vars

-----------------------------------------------------------------------------
(* API answers of the round-trip specification *)

ApiSpread(weight, targets) ==
    [Attribute |-> "dc", Weight |-> weight, SpreadTarget |-> targets]

\* no spread, a spread without target, a spread with a target
RoundSpreads ==
    {<<>>, <<ApiSpread(50, <<>>)>>,
     <<ApiSpread(50, <<[Value |-> "dc1", Percent |-> 100]>>)>>}

\* no DNS configuration, or one with every list of servers
RoundDNS ==
    {Nil} \cup {Ptr([Servers |-> l, Searches |-> <<>>, Options |-> <<>>]) : l \in Lists}

\* no check_restart, one without a grace and one with a grace
RoundCheckRestarts ==
    {Nil} \cup {Ptr([Limit |-> 1, Grace |-> g, IgnoreWarnings |-> FALSE]) :
                  g \in {Nil, Ptr(15)}}

\* no connect block, an empty one, and one with a sidecar service, its
\* proxy and a sidecar task
RoundConnects ==
    {Nil,
     Ptr([Native |-> FALSE, SidecarService |-> Nil, SidecarTask |-> Nil]),
     Ptr([Native |-> FALSE,
          SidecarService |-> Ptr([Port |-> "p", Proxy |-> Ptr([Config |-> Ptr(MapA1)])]),
          SidecarTask |-> Ptr([Name |-> "st", Config |-> Ptr(MapA1),
                               KillTimeout |-> Ptr(5), ShutdownDelay |-> Nil])])}

RoundService(checkRestart, connect) ==
    [Name |-> "s", Tags |-> <<"x", "y">>, CanaryTags |-> <<>>,
     Checks |-> <<[Name |-> "c", Args |-> <<"x">>, CheckRestart |-> checkRestart,
                   Timeout |-> 15, Interval |-> 15]>>,
     Connect |-> connect]

RoundGroup(spreads, dns, checkRestart, connect) ==
    [ApiGroup EXCEPT
       !.Spreads = spreads,
       !.Networks = <<[Mode |-> "bridge", MBits |-> Ptr(10), DNS |-> dns]>>,
       !.Tasks = <<[ApiTask EXCEPT
                      !.Templates = <<[DestPath |-> Ptr("d"), Splay |-> Ptr(5)]>>]>>,
       !.Services = <<RoundService(checkRestart, connect)>>]

\* the jobs the service returns: one group with a task and a service
RoundJobs ==
    {[ApiJob("a", t, Nil, <<RoundGroup(spreads, dns, checkRestart, connect)>>)
        EXCEPT !.Spreads = spreads,
               !.Constraints = <<[LTarget |-> "x", Operand |-> "=", RTarget |-> "y"]>>] :
        t \in Types, spreads \in RoundSpreads, dns \in RoundDNS,
        checkRestart \in RoundCheckRestarts, connect \in RoundConnects}

-----------------------------------------------------------------------------
(* The round-trip specification: the job the service returns is decoded    *)
(* into the stored resource, and the decoded configuration is encoded      *)

InitRoundTrip ==
    /\ id = "a"
    /\ attrs = Config("a", "service", <<>>, <<PlainGroup>>)
    /\ last = NoOp

DecodeReturned == last.op = "none" /\ \E x \in RoundJobs : DoRead(OkInfo(x))

EncodeDecoded ==
    /\ last.op = "read" /\ last.result = "ok"
    /\ Encoded(getJob(attrs), last.info)

NextRoundTrip == DecodeReturned \/ EncodeDecoded

SpecRoundTrip == InitRoundTrip /\ [][NextRoundTrip]_vars

-----------------------------------------------------------------------------
(* Properties of the lifecycle driver (specification Spec) *)

\* a non-empty duration text that time.ParseDuration rejects
Unparsable(text) == text # "" /\ ~(\E e \in DurationTable : e[1] = text)

InvalidJson(text) == ~(\E e \in JsonTable : e[1] = text)

BlockHasUnparsable(blocks, fields) ==
    \E i \in 1..Len(blocks) : \E f \in fields : Unparsable(blocks[i][f])

\* the configuration holds an unparsable duration
HasUnparsableDuration(c) ==
    \/ BlockHasUnparsable(c.update, {"stagger", "min_healthy_time",
                                     "healthy_deadline", "progress_deadline"})
    \/ \E i \in 1..Len(c.group) :
         LET g == c.group[i]
         IN  \/ Unparsable(g.shutdown_delay)
             \/ BlockHasUnparsable(g.migrate, {"min_healthy_time", "healthy_deadline"})
             \/ BlockHasUnparsable(g.reschedule, {"interval", "delay", "max_delay"})
             \/ BlockHasUnparsable(g.restart, {"delay", "interval"})
             \/ BlockHasUnparsable(g.task, {"kill_timeout"})

\* the configuration holds invalid JSON in a task or proxy config blob
HasInvalidJson(c) ==
    \E i \in 1..Len(c.group) :
        \/ \E j \in 1..Len(c.group[i].task) : InvalidJson(c.group[i].task[j].config)
        \/ \E j \in 1..Len(c.group[i].service) :
             \E k \in 1..Len(c.group[i].service[j].connect) :
               LET cn == c.group[i].service[j].connect[k]
               IN  \E l \in 1..Len(cn.sidecar_service) :
                     \E m \in 1..Len(cn.sidecar_service[l].proxy) :
                       InvalidJson(cn.sidecar_service[l].proxy[m].config)

SupportedTypes == {"service", "batch", "system"}

\* the decoder meets a type-dependent block of a job of an unsupported type
DecodesUnsupportedType(job) ==
    /\ StrOrEmpty(job.Type) \notin SupportedTypes
    /\ \/ ~IsNil(job.Update)
       \/ \E i \in 1..Len(job.TaskGroups) :
            \/ ~IsNil(job.TaskGroups[i].RestartPolicy)
            \/ ~IsNil(job.TaskGroups[i].ReschedulePolicy)

\* the read-back of a register cannot but return an error
ReadBackFails(info) ==
    \/ info.kind \in {"notfound", "other"} /\ ~Contains(info.text, Text404)
    \/ info.kind = "ok" /\ DecodesUnsupportedType(Deref(info.job))

\* C1 (as stated): whenever register returns success, the identity equals
\* the name declared in the configuration and the resource is present,
\* whatever the API answered, the read-back fetch included.
C1_RegisterSuccessSetsIdentity ==
    (last.op = "register" /\ last.result = "ok")
        => (id = last.preAttrs.name /\ id # "")

\* C2: a read whose fetch is answered with not-found returns success and
\* leaves the resource absent, its identity cleared.
C2_NotFoundReadIsAbsence ==
    (last.op = "read" /\ last.info.kind = "notfound")
        => (last.result = "ok" /\ id = "")

C2_Witness ==
    /\ last.op = "read" /\ last.info.kind = "notfound"
    /\ last.preId # "" /\ id = "" /\ last.result = "ok"

\* C3 (as stated): a fetch failure other than the API reporting not-found
\* makes read return an error and leaves the identity unchanged.
C3_OtherFailureIsError ==
    (last.op = "read" /\ last.info.kind = "other")
        => (last.result = "err" /\ id = last.preId)

\* C4 (as stated): whenever register returns an error the job was not
\* created or replaced on the remote service.
C4_RegisterErrorMeansNotApplied ==
    (last.op = "register" /\ last.result = "err") => last.submit # "ok"

\* C4 (amended): a register that returns an error either issued no submit
\* call (encoding failed), or its submit call failed, or its submit call
\* succeeded (the job is created or replaced) and its read-back failed.
C4_RegisterErrorStages ==
    (last.op = "register" /\ last.result = "err")
        => \/ last.calls = <<>> /\ last.submit = "none"
           \/ Len(last.calls) = 1 /\ last.submit = "err"
           \/ Len(last.calls) = 2 /\ last.submit = "ok" /\ ReadBackFails(last.info)

C4_Witness ==
    /\ last.op = "register" /\ last.result = "err"
    /\ last.submit = "ok" /\ ReadBackFails(last.info)

\* C5 (as stated): each invocation of register, read and deregister issues
\* exactly one call to the remote API.
C5_ExactlyOneCall ==
    (last.op \in {"register", "read", "deregister"}) => Len(last.calls) = 1

CallNames(calls) == [i \in 1..Len(calls) |-> calls[i].api]

\* C5 (amended): read and deregister issue exactly one call; register
\* issues none when encoding fails, the submit alone when the submit fails,
\* and the submit followed by one read-back fetch when the submit succeeds.
C5_CallsPerOperation ==
    /\ last.op = "read" => CallNames(last.calls) = <<"Info">>
    /\ last.op = "deregister" => CallNames(last.calls) = <<"Deregister">>
    /\ last.op = "register" =>
         \/ /\ HasUnparsableDuration(last.preAttrs) \/ HasInvalidJson(last.preAttrs)
            /\ last.calls = <<>>
         \/ last.submit = "err" /\ CallNames(last.calls) = <<"Register">>
         \/ last.submit = "ok" /\ CallNames(last.calls) = <<"Register", "Info">>

C5_Witness ==
    /\ last.op = "register" /\ last.result = "ok"
    /\ CallNames(last.calls) = <<"Register", "Info">>

\* C6: deregister submits one delete request with the purge flag for the
\* current identity; on success the identity is cleared, on failure an
\* error is returned and the identity is unchanged.
C6_DeregisterPurges ==
    last.op = "deregister" =>
        /\ last.calls = <<ApiCall("Deregister", last.preId, TRUE)>>
        /\ last.submit = "ok" => (last.result = "ok" /\ id = "")
        /\ last.submit = "err" => (last.result = "err" /\ id = last.preId)

C6_Witness ==
    /\ last.op = "deregister" /\ last.submit = "ok"
    /\ last.preId # "" /\ id = ""

\* C7: a register that fails at one stage performs no later stage: no API
\* call after an encoding failure, no read-back fetch after a failed
\* submit; in both cases an error is returned and the identity is unchanged.
C7_FailedStageStops ==
    last.op = "register" =>
        /\ (HasUnparsableDuration(last.preAttrs) \/ HasInvalidJson(last.preAttrs))
             => (last.calls = <<>> /\ last.result = "err" /\ id = last.preId)
        /\ last.submit = "err"
             => (CallNames(last.calls) = <<"Register">> /\ last.result = "err"
                 /\ id = last.preId)

C7_Witness ==
    /\ last.op = "register" /\ HasUnparsableDuration(last.preAttrs)
    /\ last.preId # "" /\ last.preId # last.preAttrs.name
    /\ last.calls = <<>> /\ last.result = "err"

\* C8 (as stated): a read that returns an error has changed no attribute
\* of the stored configuration state.
C8_FailedReadChangesNothing ==
    (last.op = "read" /\ last.result = "err") => attrs = last.preAttrs

\* the invocation that ends in the next state is a register whose submit
\* call succeeded
SubmitSucceeded == last'.op = "register" /\ last'.submit = "ok"

\* C21: a register whose submit call succeeded leaves the identity empty or
\* equal to the name its configuration declares; every other invocation (a
\* register that did not submit or whose submit failed, a read, a
\* deregister) leaves the identity as it was or clears it.  Hence the
\* identity is always empty or the name of the most recent register whose
\* submit call succeeded, and a cleared identity stays empty until the next
\* such register.
C21_IdentityFollowsRegister ==
    [][IF SubmitSucceeded THEN id' \in {"", last'.preAttrs.name}
       ELSE id' \in {"", id}]_vars

\* an update of the resource "a" with a configuration that declares the
\* name "b" was submitted, and the identity is "b"
C21_Witness ==
    /\ last.op = "register" /\ last.submit = "ok"
    /\ last.preId = "a" /\ last.preAttrs.name = "b"
    /\ id = "b"

-----------------------------------------------------------------------------
(* Properties of the decoder (specification SpecDecode) *)

\* a successful read of the job the service returned
DecodedJob == last.op = "read" /\ last.result = "ok" /\ last.info.kind = "ok"

ReturnedJob == Deref(last.info.job)

\* the blocks of the prior configuration at a position, <<>> when the
\* configuration has no such group or task
PriorGroupBlock(i, name) ==
    IF i <= Len(last.preAttrs.group) THEN last.preAttrs.group[i][name] ELSE <<>>

PriorTaskBlock(i, j, name) ==
    IF i <= Len(last.preAttrs.group) /\ j <= Len(last.preAttrs.group[i].task)
    THEN last.preAttrs.group[i].task[j][name] ELSE <<>>

\* "declared or different from the default": what decides that a block the
\* service returned is kept
Kept(decoded, declared, value, default) ==
    Len(decoded) = 1 <=> (Len(declared) > 0 \/ value # default)

\* C9 (as stated): for each of the seven optional blocks with a default,
\* when the service returns a value for the block, the decoded tree has the
\* block if and only if the prior configuration declares it or the value
\* differs from the default.
C9_BlockKeptIffDeclaredOrDifferent ==
    DecodedJob =>
        LET job == ReturnedJob
            _type == StrOrEmpty(job.Type)
        IN  /\ ~IsNil(job.Update) =>
                 LET u == Deref(job.Update)
                 IN  Kept(attrs.update, last.preAttrs.update,
                          [max_parallel |-> Deref(u.MaxParallel),
                           health_check |-> Deref(u.HealthCheck),
                           min_healthy_time |-> DurationString(Deref(u.MinHealthyTime)),
                           healthy_deadline |-> DurationString(Deref(u.HealthyDeadline)),
                           progress_deadline |-> DurationString(Deref(u.ProgressDeadline)),
                           auto_revert |-> Deref(u.AutoRevert),
                           auto_promote |-> Deref(u.AutoPromote),
                           canary |-> Deref(u.Canary),
                           stagger |-> DurationString(Deref(u.Stagger))],
                          UpdateDefault(_type).val)
            /\ \A i \in 1..Len(job.TaskGroups) :
                 LET g == job.TaskGroups[i]
                     out == attrs.group[i]
                 IN  /\ ~IsNil(g.EphemeralDisk) =>
                          LET e == Deref(g.EphemeralDisk)
                          IN  Kept(out.ephemeral_disk, PriorGroupBlock(i, "ephemeral_disk"),
                                   [migrate |-> Deref(e.Migrate), size |-> Deref(e.SizeMB),
                                    sticky |-> Deref(e.Sticky)],
                                   EphemeralDiskDefault)
                     /\ ~IsNil(g.RestartPolicy) =>
                          LET r == Deref(g.RestartPolicy)
                          IN  Kept(out.restart, PriorGroupBlock(i, "restart"),
                                   [attempts |-> Deref(r.Attempts),
                                    delay |-> DurationString(Deref(r.Delay)),
                                    interval |-> DurationString(Deref(r.Interval)),
                                    mode |-> Deref(r.Mode)],
                                   RestartDefault(_type).val)
                     /\ ~IsNil(g.ReschedulePolicy) =>
                          LET r == Deref(g.ReschedulePolicy)
                          IN  Kept(out.reschedule, PriorGroupBlock(i, "reschedule"),
                                   Ptr([attempts |-> Deref(r.Attempts),
                                        interval |-> DurationString(Deref(r.Interval)),
                                        delay |-> DurationString(Deref(r.Delay)),
                                        delay_function |-> Deref(r.DelayFunction),
                                        max_delay |-> DurationString(Deref(r.MaxDelay)),
                                        unlimited |-> Deref(r.Unlimited)]),
                                   RescheduleDefault(_type).val)
                     /\ ~IsNil(g.Migrate) =>
                          LET m == Deref(g.Migrate)
                          IN  Kept(out.migrate, PriorGroupBlock(i, "migrate"),
                                   [max_parallel |-> Deref(m.MaxParallel),
                                    health_check |-> Deref(m.HealthCheck),
                                    min_healthy_time |-> DurationString(Deref(m.MinHealthyTime)),
                                    healthy_deadline |-> DurationString(Deref(m.HealthyDeadline))],
                                   MigrateDefault)
                     /\ \A j \in 1..Len(g.Tasks) :
                          /\ ~IsNil(g.Tasks[j].LogConfig) =>
                               LET l == Deref(g.Tasks[j].LogConfig)
                               IN  Kept(out.task[j].logs, PriorTaskBlock(i, j, "logs"),
                                        [max_files |-> Deref(l.MaxFiles),
                                         max_file_size |-> Deref(l.MaxFileSizeMB)],
                                        LogsDefault)
                          /\ ~IsNil(g.Tasks[j].Resources) =>
                               LET r == Deref(g.Tasks[j].Resources)
                               IN  Kept(out.task[j].resources,
                                        PriorTaskBlock(i, j, "resources"),
                                        [cpu |-> Deref(r.CPU), memory |-> Deref(r.MemoryMB),
                                         device |-> Len(r.Devices), network |-> Len(r.Networks)],
                                        [cpu |-> 100, memory |-> 300, device |-> 0,
                                         network |-> 0])

\* the default restart policy of the job types, in seconds
RestartDefaultOfType(_type) ==
    IF _type = "batch" THEN <<3, 15, 86400, "fail">> ELSE <<2, 15, 1800, "fail">>

\* C10: for a job of type service, batch or system and a group whose
\* restart policy is set, the decoded group has a restart block exactly
\* when (attempts, delay, interval, mode) differs from the type's default
\* if the prior configuration has no restart block, and always if it has.
C10_RestartSuppression ==
    (DecodedJob /\ StrOrEmpty(ReturnedJob.Type) \in SupportedTypes) =>
        \A i \in 1..Len(ReturnedJob.TaskGroups) :
            LET policy == ReturnedJob.TaskGroups[i].RestartPolicy
                r == Deref(policy)
                value == <<Deref(r.Attempts), Deref(r.Delay), Deref(r.Interval),
                           Deref(r.Mode)>>
                default == RestartDefaultOfType(Deref(ReturnedJob.Type))
            IN  ~IsNil(policy) =>
                  IF Len(PriorGroupBlock(i, "restart")) = 0
                  THEN Len(attrs.group[i].restart) = 1 <=> value # default
                  ELSE Len(attrs.group[i].restart) = 1

\* a batch job whose restart policy is the batch default, read with no
\* restart block in the prior configuration: the block is omitted
C10_Witness ==
    /\ DecodedJob /\ ReturnedJob.Type = Ptr("batch")
    /\ Len(ReturnedJob.TaskGroups) >= 1 /\ Len(last.preAttrs.group) >= 1
    /\ ReturnedJob.TaskGroups[1].RestartPolicy
         = ApiRestart(Ptr(3), Ptr(15), Ptr(86400), Ptr("fail"))
    /\ last.preAttrs.group[1].restart = <<>>
    /\ attrs.group[1].restart = <<>>

\* the message of the error decoding the returned job ends with, "" when
\* the groups and the update strategy decode
DecodeErrorMessage ==
    LET errorOf(groups, update) == IF ~IsOk(groups) THEN groups.msg ELSE update.msg
    IN  errorOf(readGroups(StrOrEmpty(ReturnedJob.Type), last.preAttrs.group,
                           ReturnedJob.TaskGroups),
                readUpdate(StrOrEmpty(ReturnedJob.Type), last.preAttrs.update,
                           ReturnedJob.Update))

\* C11 (as stated): decoding a job whose type is outside service, batch and
\* system fails with the error "<type>" is not supported, whatever else the
\* response holds (no task group, no restart or reschedule policy, no
\* update strategy included).  Stated of the reads that return.
C11_UnsupportedTypeFails ==
    (last.op = "read" /\ last.info.kind = "ok" /\ last.result # "panic"
     /\ StrOrEmpty(ReturnedJob.Type) \notin SupportedTypes)
        => /\ last.result = "err"
           /\ DecodeErrorMessage = NotSupported(StrOrEmpty(ReturnedJob.Type)).msg

\* the reschedule policy the service returned for a group, as the decoder
\* renders its six fields
ReschedulePolicyValue(policy) ==
    <<Deref(Deref(policy).Attempts), DurationString(Deref(Deref(policy).Interval)),
      DurationString(Deref(Deref(policy).Delay)), Deref(Deref(policy).DelayFunction),
      DurationString(Deref(Deref(policy).MaxDelay)), Deref(Deref(policy).Unlimited)>>

RescheduleDefaultOfType(_type) ==
    IF _type = "service" THEN <<0, "0s", "30s", "exponential", "1h0m0s", TRUE>>
    ELSE <<1, "24h0m0s", "5s", "constant", "0s", FALSE>>

\* C16: a group whose reschedule policy is null decodes to no reschedule
\* block, for every type; a non-null policy of a service or batch job whose
\* prior configuration has no reschedule block is omitted exactly when its
\* six fields equal the type's default; a non-null policy of a system job
\* is always emitted, declared or not.
C16_RescheduleSuppression ==
    DecodedJob =>
        \A i \in 1..Len(ReturnedJob.TaskGroups) :
            LET policy == ReturnedJob.TaskGroups[i].ReschedulePolicy
                _type == StrOrEmpty(ReturnedJob.Type)
                decoded == attrs.group[i].reschedule
            IN  IF IsNil(policy) THEN Len(decoded) = 0
                ELSE /\ (_type \in {"service", "batch"}
                         /\ Len(PriorGroupBlock(i, "reschedule")) = 0)
                          => (Len(decoded) = 0
                              <=> ReschedulePolicyValue(policy)
                                    = RescheduleDefaultOfType(_type))
                     /\ _type = "system" => Len(decoded) = 1

\* a system job whose reschedule policy has the values of the batch default,
\* read with no reschedule block in the prior configuration: the block is
\* emitted
C16_Witness ==
    /\ DecodedJob /\ ReturnedJob.Type = Ptr("system")
    /\ Len(ReturnedJob.TaskGroups) >= 1 /\ Len(last.preAttrs.group) >= 1
    /\ ReturnedJob.TaskGroups[1].ReschedulePolicy
         = ApiReschedule(1, 86400, 5, "constant", 0, FALSE)
    /\ last.preAttrs.group[1].reschedule = <<>>
    /\ Len(attrs.group[1].reschedule) = 1

\* the update strategy the service returned, as the decoder renders its nine
\* fields: max_parallel, health_check, min_healthy_time, healthy_deadline,
\* progress_deadline, auto_revert, auto_promote, canary, stagger
UpdateStrategyValue(update) ==
    <<Deref(Deref(update).MaxParallel), Deref(Deref(update).HealthCheck),
      DurationString(Deref(Deref(update).MinHealthyTime)),
      DurationString(Deref(Deref(update).HealthyDeadline)),
      DurationString(Deref(Deref(update).ProgressDeadline)),
      Deref(Deref(update).AutoRevert), Deref(Deref(update).AutoPromote),
      Deref(Deref(update).Canary), DurationString(Deref(Deref(update).Stagger))>>

UpdateDefaultOfType(_type) ==
    IF _type = "service" THEN <<1, "", "0s", "0s", "0s", FALSE, FALSE, 0, "30s">>
    ELSE <<0, "", "0s", "0s", "0s", FALSE, FALSE, 0, "0s">>

\* C17: for a job whose update strategy is set, the decoded update block is
\* omitted exactly when the nine fields equal the type's default if the
\* prior configuration has no update block, and is always present if it has.
C17_UpdateSuppression ==
    (DecodedJob /\ ~IsNil(ReturnedJob.Update)) =>
        IF Len(last.preAttrs.update) = 0
        THEN Len(attrs.update) = 0
             <=> UpdateStrategyValue(ReturnedJob.Update)
                   = UpdateDefaultOfType(StrOrEmpty(ReturnedJob.Type))
        ELSE Len(attrs.update) = 1

\* a system job whose update strategy is the default of batch and system
\* jobs, read with no update block in the prior configuration: the block is
\* omitted
C17_Witness ==
    /\ DecodedJob /\ ReturnedJob.Type = Ptr("system")
    /\ ReturnedJob.Update = ApiUpdate(0, 0, 0)
    /\ last.preAttrs.update = <<>>
    /\ attrs.update = <<>>

\* C22 (as stated): a read ends in success or in a returned error, for
\* every answer of the service and every prior configuration: no group of
\* the prior configuration is read at an index outside its group list, and
\* no unset duration of a present block is rendered.
C22_ReadNeverPanics ==
    last.op = "read" => last.result \in {"ok", "err"}

-----------------------------------------------------------------------------
(* Properties of the encoder (specification SpecEncode) *)

\* a configuration was encoded without error
EncodedJob == last.op = "encode" /\ IsOk(last.job)

\* the pairs <<text, field>> of a block's duration attributes and the
\* fields of the API object the block was encoded into
BlockDurations(blocks, object, pairs) ==
    IF Len(blocks) = 0 THEN {}
    ELSE {<<blocks[Len(blocks)][p[1]], Deref(object)[p[2]]>> : p \in pairs}

\* the duration attributes of the configuration c that the API object
\* graph job holds by reference, each with its encoded field
PointerDurations(c, job) ==
    BlockDurations(c.update, job.Update,
                   {<<"stagger", "Stagger">>, <<"min_healthy_time", "MinHealthyTime">>,
                    <<"healthy_deadline", "HealthyDeadline">>,
                    <<"progress_deadline", "ProgressDeadline">>})
    \cup UNION {
        LET g == c.group[i]
            group == job.TaskGroups[i]
        IN  {<<g.shutdown_delay, group.ShutdownDelay>>}
            \cup BlockDurations(g.restart, group.RestartPolicy,
                                {<<"delay", "Delay">>, <<"interval", "Interval">>})
            \cup BlockDurations(g.migrate, group.Migrate,
                                {<<"min_healthy_time", "MinHealthyTime">>,
                                 <<"healthy_deadline", "HealthyDeadline">>})
            \cup BlockDurations(g.reschedule, group.ReschedulePolicy,
                                {<<"interval", "Interval">>, <<"delay", "Delay">>,
                                 <<"max_delay", "MaxDelay">>})
            \cup {<<g.task[j].kill_timeout, group.Tasks[j].KillTimeout>> :
                    j \in 1..Len(g.task)}
            \cup UNION {{<<g.task[j].template[k].splay,
                           group.Tasks[j].Templates[k].Splay>> :
                            k \in 1..Len(g.task[j].template)} : j \in 1..Len(g.task)}
            \cup UNION {UNION {BlockDurations(g.service[j].check[k].check_restart,
                                              group.Services[j].Checks[k].CheckRestart,
                                              {<<"grace", "Grace">>}) :
                                 k \in 1..Len(g.service[j].check)} :
                          j \in 1..Len(g.service)}
        : i \in 1..Len(c.group)}

\* the duration attributes the API object graph holds by value (a
\* time.Duration, not a *time.Duration): the shutdown_delay of a task and
\* the timeout and the interval of a check
ValueDurations(c, job) ==
    UNION {
        LET g == c.group[i]
            group == job.TaskGroups[i]
        IN  {<<g.task[j].shutdown_delay, group.Tasks[j].ShutdownDelay>> :
                j \in 1..Len(g.task)}
            \cup UNION {UNION {{<<g.service[j].check[k].timeout,
                                  group.Services[j].Checks[k].Timeout>>,
                                <<g.service[j].check[k].interval,
                                  group.Services[j].Checks[k].Interval>>} :
                                 k \in 1..Len(g.service[j].check)} :
                          j \in 1..Len(g.service)}
        : i \in 1..Len(c.group)}

\* C12 (as stated): for every duration-bearing attribute, the fields held
\* by value included, an empty duration text is encoded as unset (null),
\* never as a zero-length duration.
C12_EmptyDurationIsNull ==
    EncodedJob =>
        /\ \A p \in PointerDurations(last.preAttrs, last.job.val) :
             p[1] = "" => IsNil(p[2])
        /\ \A p \in ValueDurations(last.preAttrs, last.job.val) :
             p[1] = "" => p[2] # 0

\* the list attributes of a declared block are encoded as they are
\* configured: pairs names <<attribute, field>> of the block and its object
SameLists(blocks, object, pairs) ==
    Len(blocks) > 0 =>
        \A p \in pairs : Deref(object)[p[2]] = blocks[Len(blocks)][p[1]]

\* C15 (as stated): every encoded list (datacenters, service tags and canary
\* tags, check args, vault policies, DNS servers, searches and options,
\* parameterized meta lists) has the elements of the configured list in the
\* same order, for lists of every length.
C15_ListsKept ==
    EncodedJob =>
        LET c == last.preAttrs
            job == last.job.val
        IN  /\ job.Datacenters = c.datacenters
            /\ SameLists(c.parameterized, job.ParameterizedJob,
                         {<<"meta_required", "MetaRequired">>,
                          <<"meta_optional", "MetaOptional">>})
            /\ \A i \in 1..Len(c.group) :
                 LET g == c.group[i]
                     group == job.TaskGroups[i]
                 IN  /\ \A j \in 1..Len(g.service) :
                          /\ group.Services[j].Tags = g.service[j].tags
                          /\ group.Services[j].CanaryTags = g.service[j].canary_tags
                          /\ \A k \in 1..Len(g.service[j].check) :
                               group.Services[j].Checks[k].Args = g.service[j].check[k].args
                     /\ \A j \in 1..Len(g.task) :
                          SameLists(g.task[j].vault, group.Tasks[j].Vault,
                                    {<<"policies", "Policies">>})
                     /\ \A j \in 1..Len(g.network) :
                          SameLists(g.network[j].dns, group.Networks[j].DNS,
                                    {<<"servers", "Servers">>, <<"searches", "Searches">>,
                                     <<"options", "Options">>})

\* C18: whatever spread blocks and targets the configuration declares at
\* the job or at a group, the encoded job and every encoded task group carry
\* no spread.
C18_SpreadsNeverEncoded ==
    EncodedJob =>
        /\ Len(last.job.val.Spreads) = 0
        /\ \A i \in 1..Len(last.job.val.TaskGroups) :
             Len(last.job.val.TaskGroups[i].Spreads) = 0

\* a configuration with two spread blocks at the job and at its group, one
\* of them with a target, was encoded
C18_Witness ==
    /\ EncodedJob
    /\ Len(last.preAttrs.spread) = 2
    /\ Len(last.preAttrs.spread[2].target) = 1
    /\ Len(last.preAttrs.group) = 1
    /\ Len(last.preAttrs.group[1].spread) = 2
    /\ Len(last.job.val.TaskGroups) = 1
    /\ last.job.val.Spreads = <<>>
    /\ last.job.val.TaskGroups[1].Spreads = <<>>

\* the encoded job of a configuration was decoded against the configuration
DecodedBack == last.op = "read" /\ last.result = "ok" /\ last.info.kind = "ok"

\* the object a JSON text denotes: every digit of a number counts
Denotes(text) ==
    IF text = BigNumberText
    THEN Ptr([k \in {"a"} |-> JsonNumber("9007199254740993")])
    ELSE jsonUnmarshal(text).val

\* the text read back for the config of a declared block denotes the
\* object of the configured text
SameConfig(decoded, declared) ==
    Len(declared) > 0 =>
        /\ Len(decoded) > 0
        /\ Denotes(decoded[Len(decoded)].config) = Denotes(declared[Len(declared)].config)

\* the sidecar_service blocks of a connect block, and their proxy blocks
SidecarServices(connect) ==
    IF Len(connect) = 0 THEN <<>> ELSE connect[Len(connect)].sidecar_service

Proxies(connect) ==
    IF Len(SidecarServices(connect)) = 0 THEN <<>>
    ELSE SidecarServices(connect)[Len(SidecarServices(connect))].proxy

SidecarTasks(connect) ==
    IF Len(connect) = 0 THEN <<>> ELSE connect[Len(connect)].sidecar_task

\* C14 (as stated): for the config of a task, of a sidecar proxy and of a
\* sidecar task, and every JSON object text given for it, the text decoded
\* from the encoded mapping denotes the same object as the text given.
C14_ConfigRoundTrip ==
    DecodedBack =>
        \A i \in 1..Len(last.preAttrs.group) :
            LET declared == last.preAttrs.group[i]
                decoded == attrs.group[i]
            IN  /\ \A j \in 1..Len(declared.task) :
                     SameConfig(<<decoded.task[j]>>, <<declared.task[j]>>)
                /\ \A j \in 1..Len(declared.service) :
                     /\ SameConfig(Proxies(decoded.service[j].connect),
                                   Proxies(declared.service[j].connect))
                     /\ SameConfig(SidecarTasks(decoded.service[j].connect),
                                   SidecarTasks(declared.service[j].connect))

\* the connect blocks the service returned, each with the connect blocks
\* decoded for its service
ReturnedConnects ==
    UNION {{<<ReturnedJob.TaskGroups[i].Services[j].Connect,
              attrs.group[i].service[j].connect>> :
              j \in 1..Len(ReturnedJob.TaskGroups[i].Services)} :
           i \in 1..Len(ReturnedJob.TaskGroups)}

\* the sidecar tasks of an encoded job
EncodedSidecarTasks(job) ==
    UNION {{Deref(job.TaskGroups[i].Services[j].Connect).SidecarTask :
              j \in {k \in 1..Len(job.TaskGroups[i].Services) :
                       ~IsNil(job.TaskGroups[i].Services[k].Connect)}} :
           i \in 1..Len(job.TaskGroups)}

\* C19: the Config mapping of every encoded sidecar task is empty, whatever
\* JSON text the config attribute holds; and the connect block decoded from
\* a returned connect block has no sidecar_task, whatever sidecar task the
\* service returned.
C19_SidecarTaskNeverSurvives ==
    /\ EncodedJob =>
         \A task \in EncodedSidecarTasks(last.job.val) :
             ~IsNil(task) => IsNil(Deref(task).Config)
    /\ DecodedBack =>
         \A c \in ReturnedConnects :
             ~IsNil(c[1]) => Len(c[2]) = 1 /\ Len(c[2][1].sidecar_task) = 0

\* the configuration declares a sidecar task with the config { "a": 1 }; it
\* was encoded, the service returned the job with the sidecar task and a
\* configuration of the task, and the decoded connect block has no
\* sidecar_task
C19_Witness ==
    /\ DecodedBack
    /\ Len(last.preAttrs.group) = 1 /\ Len(last.preAttrs.group[1].service) = 1
    /\ Len(SidecarTasks(last.preAttrs.group[1].service[1].connect)) = 1
    /\ SidecarTasks(last.preAttrs.group[1].service[1].connect)[1].config = "{ \"a\": 1 }"
    /\ ~IsNil(ReturnedJob.TaskGroups[1].Services[1].Connect)
    /\ ~IsNil(Deref(ReturnedJob.TaskGroups[1].Services[1].Connect).SidecarTask)
    /\ Deref(Deref(ReturnedJob.TaskGroups[1].Services[1].Connect).SidecarTask).Config
         = Ptr(MapA1)
    /\ Len(attrs.group[1].service[1].connect) = 1
    /\ attrs.group[1].service[1].connect[1].sidecar_task = <<>>

\* the optional is null exactly when the block's sequence is empty
NullIffEmpty(blocks, optional) == IsNil(optional) <=> Len(blocks) = 0

\* the duration a duration text stands for: unset for "" and for zero
ExpectedDuration(text) ==
    IF text = "" \/ ParseDuration(text).secs = 0 THEN Nil
    ELSE Ptr(ParseDuration(text).secs)

\* the optional blocks of a group and of the job are null exactly when not
\* declared, and hold the fields of the declared block
GroupBlocksEncoded(c, job, g, group) ==
    /\ NullIffEmpty(c.update, job.Update)
    /\ Len(c.update) = 1 =>
         /\ Deref(job.Update).MaxParallel = Ptr(c.update[1].max_parallel)
         /\ Deref(job.Update).Canary = Ptr(c.update[1].canary)
         /\ Deref(job.Update).AutoRevert = Ptr(c.update[1].auto_revert)
         /\ Deref(job.Update).Stagger = ExpectedDuration(c.update[1].stagger)
    /\ NullIffEmpty(g.migrate, group.Migrate)
    /\ Len(g.migrate) = 1 =>
         /\ Deref(group.Migrate).MaxParallel = Ptr(g.migrate[1].max_parallel)
         /\ Deref(group.Migrate).HealthCheck = Ptr(g.migrate[1].health_check)
         /\ Deref(group.Migrate).MinHealthyTime
              = ExpectedDuration(g.migrate[1].min_healthy_time)
    /\ NullIffEmpty(g.reschedule, group.ReschedulePolicy)
    /\ Len(g.reschedule) = 1 =>
         /\ Deref(group.ReschedulePolicy).Attempts = Ptr(g.reschedule[1].attempts)
         /\ Deref(group.ReschedulePolicy).DelayFunction
              = Ptr(g.reschedule[1].delay_function)
         /\ Deref(group.ReschedulePolicy).Unlimited = Ptr(g.reschedule[1].unlimited)
         /\ Deref(group.ReschedulePolicy).Delay
              = ExpectedDuration(g.reschedule[1].delay)
    /\ NullIffEmpty(g.restart, group.RestartPolicy)
    /\ Len(g.restart) = 1 =>
         /\ Deref(group.RestartPolicy).Attempts = Ptr(g.restart[1].attempts)
         /\ Deref(group.RestartPolicy).Mode = Ptr(g.restart[1].mode)
         /\ Deref(group.RestartPolicy).Delay = ExpectedDuration(g.restart[1].delay)
         /\ Deref(group.RestartPolicy).Interval
              = ExpectedDuration(g.restart[1].interval)
    /\ NullIffEmpty(g.ephemeral_disk, group.EphemeralDisk)
    /\ Len(g.ephemeral_disk) = 1 =>
         /\ Deref(group.EphemeralDisk).Sticky = Ptr(g.ephemeral_disk[1].sticky)
         /\ Deref(group.EphemeralDisk).Migrate = Ptr(g.ephemeral_disk[1].migrate)
         /\ Deref(group.EphemeralDisk).SizeMB = Ptr(g.ephemeral_disk[1].size)

\* the same for the optional blocks of a task
TaskBlocksEncoded(t, task) ==
    /\ NullIffEmpty(t.dispatch_payload, task.DispatchPayload)
    /\ Len(t.dispatch_payload) = 1 =>
         Deref(task.DispatchPayload).File = t.dispatch_payload[1].file
    /\ NullIffEmpty(t.lifecycle, task.Lifecycle)
    /\ Len(t.lifecycle) = 1 =>
         /\ Deref(task.Lifecycle).Hook = t.lifecycle[1].hook
         /\ Deref(task.Lifecycle).Sidecar = t.lifecycle[1].sidecar
    /\ NullIffEmpty(t.vault, task.Vault)
    /\ Len(t.vault) = 1 => Deref(task.Vault).Policies = t.vault[1].policies
    /\ NullIffEmpty(t.logs, task.LogConfig)
    /\ Len(t.logs) = 1 =>
         /\ Deref(task.LogConfig).MaxFiles = Ptr(t.logs[1].max_files)
         /\ Deref(task.LogConfig).MaxFileSizeMB = Ptr(t.logs[1].max_file_size)
    /\ NullIffEmpty(t.resources, task.Resources)
    /\ Len(t.resources) = 1 =>
         /\ Deref(task.Resources).CPU = Ptr(t.resources[1].cpu)
         /\ Deref(task.Resources).MemoryMB = Ptr(t.resources[1].memory)

\* the same for the connect block of a service, its sidecar_service and the
\* proxy of the sidecar_service
ServiceBlocksEncoded(sv, service) ==
    /\ NullIffEmpty(sv.connect, service.Connect)
    /\ Len(sv.connect) = 1 =>
         /\ Deref(service.Connect).Native = sv.connect[1].native
         /\ NullIffEmpty(SidecarServices(sv.connect),
                         Deref(service.Connect).SidecarService)
         /\ Len(SidecarServices(sv.connect)) = 1 =>
              /\ Deref(Deref(service.Connect).SidecarService).Port
                   = SidecarServices(sv.connect)[1].port
              /\ NullIffEmpty(Proxies(sv.connect),
                              Deref(Deref(service.Connect).SidecarService).Proxy)
              /\ Len(Proxies(sv.connect)) = 1 =>
                   Deref(Deref(Deref(service.Connect).SidecarService).Proxy).Config
                     = jsonUnmarshal(Proxies(sv.connect)[1].config).val

\* C20: each of the thirteen optional singleton blocks (migrate, reschedule,
\* restart, ephemeral disk, update, dispatch payload, lifecycle, vault, logs,
\* resources, connect, sidecar service, proxy) is encoded as null exactly
\* when its sequence is empty and from the fields of its element when it has
\* one; and the encoding does not depend on the job type: the configuration
\* with any other type encodes to the same job but for the type.
C20_SingletonBlocks ==
    EncodedJob =>
        LET c == last.preAttrs
            job == last.job.val
        IN  /\ \A i \in 1..Len(c.group) :
                 /\ GroupBlocksEncoded(c, job, c.group[i], job.TaskGroups[i])
                 /\ \A j \in 1..Len(c.group[i].task) :
                      TaskBlocksEncoded(c.group[i].task[j], job.TaskGroups[i].Tasks[j])
                 /\ \A j \in 1..Len(c.group[i].service) :
                      ServiceBlocksEncoded(c.group[i].service[j],
                                           job.TaskGroups[i].Services[j])
            /\ \A t \in Types :
                 getJob([c EXCEPT !.type = t]) = Ok([job EXCEPT !.Type = strToPtr(t)])

\* a batch job that declares every block, with the duration "15s", was
\* encoded
C20_Witness ==
    /\ EncodedJob
    /\ Len(last.preAttrs.group) = 1
    /\ last.preAttrs.type = "batch"
    /\ Len(last.preAttrs.group[1].restart) = 1
    /\ Len(last.preAttrs.group[1].reschedule) = 1
    /\ Len(last.preAttrs.update) = 1
    /\ Len(Proxies(last.preAttrs.group[1].service[1].connect)) = 1
    /\ Deref(last.job.val.TaskGroups[1].RestartPolicy).Delay = Ptr(15)
    /\ ~IsNil(last.job.val.TaskGroups[1].ReschedulePolicy)
    /\ ~IsNil(last.job.val.Update)

-----------------------------------------------------------------------------
(* Properties of the round trip (specification SpecRoundTrip) *)

\* the decoded configuration of the returned job x was encoded
ReEncoded == last.op = "encode" /\ last.info.kind = "ok"

\* the fields of the job and of its groups that have no default-suppression
\* rule, as a tuple (one entry for each group)
UnsuppressedFields(job) ==
    <<job.Constraints, job.Spreads,
      [i \in 1..Len(job.TaskGroups) |->
          LET g == job.TaskGroups[i]
          IN  <<g.Spreads, g.Networks, g.Services,
                [j \in 1..Len(g.Tasks) |-> g.Tasks[j].Templates]>>]>>

\* C13 (as stated): encoding the configuration decoded from a returned job x
\* yields x again on every field without a default-suppression rule: the
\* constraints, the spreads with their targets, the networks with DNS, the
\* services with checks, check_restart and connect, the templates of tasks.
C13_RoundTrip ==
    ReEncoded =>
        /\ IsOk(last.job)
        /\ UnsuppressedFields(last.job.val) = UnsuppressedFields(ReturnedJob)

====
